---------------------------- MODULE Spec2Model ----------------------------
(***************************************************************************)
(* A model of the correction engine of src/main.cpp: the Command value,    *)
(* the rule catalogue, the RuleManager (registry and dispatch), the        *)
(* executable index with its process-wide cache, the fuzzy matcher and     *)
(* the retry loop of main.                                                 *)
(*                                                                         *)
(* Strings are TLA+ strings; a character is a string of length one, and    *)
(* positions are 0-based as in std::string (Find, Substr, Replace) unless  *)
(* an operator says otherwise.                                             *)
(***************************************************************************)
EXTENDS Integers, Sequences, FiniteSets, TLC

VARIABLES
    pc,          \* position of main (or of the function under test)
    recursive,   \* main: the -r flag
    stdlib,      \* which std::sort the build links ("stable" or "libstdcxx")
    PATH,        \* the PATH environment variable (NoEnv when unset)
    dirs_present,\* the directories that exist now
    files,       \* paths for which stat() succeeds relative to the cwd
    main_cmd,    \* main: cmd, the current Command
    attempts,    \* main: attempts
    rules,       \* RuleManager::rules of the manager of this iteration
    corrections, \* main: corrections
    fired,       \* name of the rule whose get_new_command produced corrections
    cache,       \* fuzzy::get_command_cache(): the static CommandCache
    result,      \* main: result of system(correction)
    ret,         \* return value of the function applied last (unit runs)
    fs_changes   \* how many times the set of directories has changed

vars == <<pc, recursive, stdlib, PATH, dirs_present, files, main_cmd, attempts, rules,
          corrections, fired, cache, result, ret, fs_changes>>

-----------------------------------------------------------------------------
(* Bounds of the model *)

\* longest script drawn character by character for the tokenizer
MaxScriptLen == 4
\* most directories on a generated PATH
MaxPathDirs == 3
\* how often a directory may appear or disappear while main runs
MaxFsChanges == 1

-----------------------------------------------------------------------------
(* std::string helpers *)

NPOS == -1

SetMin(S) == CHOOSE x \in S : \A y \in S : x <= y

SetMax(S) == CHOOSE x \in S : \A y \in S : x >= y

Min2(a, b) == IF a <= b THEN a ELSE b

\* the sequence f as a tuple
AsSeq(f) == SubSeq(f, 1, Len(f))

\* A loop over a range is written as its first half followed by its second,
\* which keeps the order of the iterations.  TLC computes the argument of an
\* operator where it is first used; Ready(v), true of every v, is the first
\* test of such a loop, so that the value the loop starts from is computed
\* before its steps are.
Ready(v) == v = v

\* s[i] for a 0-based i; s[s.size()] is the terminating NUL
Nul == "\\0"

CharAt(s, i) == IF i = Len(s) THEN Nul ELSE SubSeq(s, i + 1, i + 1)

\* std::string::find(sub): first 0-based position, or NPOS
Find(str, sub) ==
    LET C == {p \in 0..(Len(str) - Len(sub)) :
                 SubSeq(str, p + 1, p + Len(sub)) = sub}
    IN IF C = {} THEN NPOS ELSE SetMin(C)

\* std::string::rfind(sub): last 0-based position, or NPOS
RFind(str, sub) ==
    LET C == {p \in 0..(Len(str) - Len(sub)) :
                 SubSeq(str, p + 1, p + Len(sub)) = sub}
    IN IF C = {} THEN NPOS ELSE SetMax(C)

\* std::string::substr(pos) and substr(pos, n), for pos <= size()
Substr(s, pos) == SubSeq(s, pos + 1, Len(s))

SubstrN(s, pos, n) == SubSeq(s, pos + 1, Min2(pos + n, Len(s)))

\* std::string::replace(pos, n, t)
Replace(s, pos, n, t) ==
    SubSeq(s, 1, pos) \o t \o SubSeq(s, Min2(pos + n, Len(s)) + 1, Len(s))

LowerChar(c) ==
    CASE c = "A" -> "a" [] c = "B" -> "b" [] c = "C" -> "c" [] c = "D" -> "d"
      [] c = "E" -> "e" [] c = "F" -> "f" [] c = "G" -> "g" [] c = "H" -> "h"
      [] c = "I" -> "i" [] c = "J" -> "j" [] c = "K" -> "k" [] c = "L" -> "l"
      [] c = "M" -> "m" [] c = "N" -> "n" [] c = "O" -> "o" [] c = "P" -> "p"
      [] c = "Q" -> "q" [] c = "R" -> "r" [] c = "S" -> "s" [] c = "T" -> "t"
      [] c = "U" -> "u" [] c = "V" -> "v" [] c = "W" -> "w" [] c = "X" -> "x"
      [] c = "Y" -> "y" [] c = "Z" -> "z" [] OTHER -> c

\* utils::to_lower: std::transform with ::tolower over the string, here
\* over its first half and then its second
RECURSIVE to_lower(_)
to_lower(s) ==
    IF Len(s) <= 1 THEN LowerChar(s)
    ELSE LET mid == Len(s) \div 2
         IN to_lower(SubSeq(s, 1, mid)) \o to_lower(SubSeq(s, mid + 1, Len(s)))

\* utils::contains
contains(str, substr) == Find(str, substr) # NPOS

\* utils::starts_with
starts_with(str, prefix) == Find(str, prefix) = 0

\* utils::ends_with
ends_with(str, suffix) ==
    /\ Len(str) >= Len(suffix)
    /\ SubSeq(str, Len(str) - Len(suffix) + 1, Len(str)) = suffix

\* while (std::getline(iss, part, delim)): pos is the 0-based read position
\* of the stream and lines holds the fragments extracted so far, empty ones
\* included.  getline takes the characters up to the next delim, or up to
\* the end, and fails once nothing is left to read
RECURSIVE getlines_from(_, _, _, _)
getlines_from(str, delim, pos, lines) ==
    IF pos >= Len(str) THEN lines
    ELSE LET d == Find(Substr(str, pos), delim)
             part == IF d = NPOS THEN Substr(str, pos) ELSE SubstrN(str, pos, d)
             next == IF d = NPOS THEN Len(str) ELSE pos + d + 1
         IN getlines_from(str, delim, next, Append(lines, part))

\* utils::split
split(str, delim) ==
    LET not_empty(part) == part # ""
    IN SelectSeq(getlines_from(str, delim, 0, <<>>), not_empty)

\* Command::Command
Command(s, o) == [script |-> s, output |-> o, script_parts |-> split(s, " ")]

-----------------------------------------------------------------------------
(* fuzzy::levenshtein_distance *)

Min3(a, b, c) == Min2(a, Min2(b, c))

\* the cells lo .. hi - 1 of row i of dp, appended to row: row[j + 1] is
\* dp[i][j] and prev is row i - 1
RECURSIVE dp_row(_, _, _, _, _, _, _)
dp_row(s1, s2, i, prev, lo, hi, row) ==
    CASE ~Ready(row) \/ lo >= hi -> row
      [] hi - lo = 1 ->
            Append(row, IF SubSeq(s1, i, i) = SubSeq(s2, lo, lo)
                        THEN prev[lo]
                        ELSE 1 + Min3(prev[lo + 1], row[lo], prev[lo]))
      [] OTHER ->
            LET mid == lo + (hi - lo) \div 2
            IN dp_row(s1, s2, i, prev, mid, hi, dp_row(s1, s2, i, prev, lo, mid, row))

\* the rows lo .. hi - 1 of dp, below the row prev; the last of them
RECURSIVE dp_rows(_, _, _, _, _)
dp_rows(s1, s2, lo, hi, prev) ==
    CASE ~Ready(prev) \/ lo >= hi -> prev
      [] hi - lo = 1 -> dp_row(s1, s2, lo, prev, 1, Len(s2) + 1, <<lo>>)
      [] OTHER ->
            LET mid == lo + (hi - lo) \div 2
            IN dp_rows(s1, s2, mid, hi, dp_rows(s1, s2, lo, mid, prev))

\* the last cell of row 0: the loops over i and j left out
levenshtein_distance_of_row_0(s1, s2) ==
    AsSeq([j \in 1..(Len(s2) + 1) |-> j - 1])[Len(s2) + 1]

levenshtein_distance(s1, s2) ==
    dp_rows(s1, s2, 1, Len(s1) + 1,
            AsSeq([j \in 1..(Len(s2) + 1) |-> j - 1]))[Len(s2) + 1]

-----------------------------------------------------------------------------
(* std::sort.  The standard leaves the order of equivalent elements open, *)
(* so the result depends on the library the build links.  Two libraries   *)
(* are modelled: one whose sort keeps equivalent elements in place        *)
(* ("stable": an insertion sort), and libstdc++ ("libstdcxx"), whose      *)
(* introsort partitions ranges of more than 16 elements around a median   *)
(* of three and finishes with insertion sorts.  An array is a sequence a  *)
(* of positions into keys; first is 1-based and last is one past the end. *)

SortThreshold == 16

StdLibs == {"stable", "libstdcxx"}

Swap(a, i, j) == [a EXCEPT ![i] = a[j], ![j] = a[i]]

\* std::__lg
RECURSIVE FloorLg(_)
FloorLg(n) == IF n <= 1 THEN 0 ELSE 1 + FloorLg(n \div 2)

\* std::__move_median_to_first(result, a, b, c)
MoveMedianToFirst(arr, keys, res, a, b, c) ==
    LET lt(x, y) == keys[arr[x]] < keys[arr[y]]
    IN IF lt(a, b)
       THEN IF lt(b, c) THEN Swap(arr, res, b)
            ELSE IF lt(a, c) THEN Swap(arr, res, c)
            ELSE Swap(arr, res, a)
       ELSE IF lt(a, c) THEN Swap(arr, res, a)
            ELSE IF lt(b, c) THEN Swap(arr, res, c)
            ELSE Swap(arr, res, b)

\* while (comp(first, pivot)) ++first: where the scan stops
ScanUp(arr, keys, first, pivot) ==
    SetMin({p \in first..Len(arr) : ~(keys[arr[p]] < keys[arr[pivot]])})

\* while (comp(pivot, last)) --last: where the scan stops
ScanDown(arr, keys, last, pivot) ==
    SetMax({p \in 1..last : ~(keys[arr[pivot]] < keys[arr[p]])})

\* std::__unguarded_partition(first, last, pivot)
RECURSIVE UnguardedPartition(_, _, _, _, _)
UnguardedPartition(arr, keys, first, last, pivot) ==
    LET f == ScanUp(arr, keys, first, pivot)
        l == ScanDown(arr, keys, last - 1, pivot)
    IN IF ~(f < l) THEN [arr |-> arr, cut |-> f]
       ELSE UnguardedPartition(Swap(arr, f, l), keys, f + 1, l, pivot)

\* std::__introsort_loop; the heap sort taken when depth_limit runs out is
\* not reached for the sizes used here and is left to the insertion sorts
RECURSIVE IntrosortLoop(_, _, _, _, _)
IntrosortLoop(arr, keys, first, last, depth_limit) ==
    IF last - first > SortThreshold /\ depth_limit > 0
    THEN LET mid == first + (last - first) \div 2
             med == MoveMedianToFirst(arr, keys, first, first + 1, mid, last - 1)
             part == UnguardedPartition(med, keys, first + 1, last, first)
             right == IntrosortLoop(part.arr, keys, part.cut, last, depth_limit - 1)
         IN IntrosortLoop(right, keys, first, part.cut, depth_limit - 1)
    ELSE arr

\* std::__unguarded_linear_insert: val, taken out of position last, moves
\* down past the elements greater than it; stop is the position of the
\* first element from last - 1 down that is not greater (0: there is none)
UnguardedLinearInsert(arr, keys, last, val) ==
    LET stop == SetMax({0} \cup {p \in 1..(last - 1) : ~(keys[val] < keys[arr[p]])})
    IN AsSeq([k \in 1..Len(arr) |->
                 IF k = stop + 1 THEN val
                 ELSE IF k > stop + 1 /\ k <= last THEN arr[k - 1]
                 ELSE arr[k]])

\* the body of the loop of std::__insertion_sort for position i
InsertionStep(arr, keys, first, i) ==
    IF keys[arr[i]] < keys[arr[first]]
    THEN AsSeq([k \in 1..Len(arr) |->
                   IF k = first THEN arr[i]
                   ELSE IF k > first /\ k <= i THEN arr[k - 1]
                   ELSE arr[k]])
    ELSE UnguardedLinearInsert(arr, keys, i, arr[i])

\* the loop of std::__insertion_sort for the positions lo .. hi - 1: the
\* first half of them, then the second
RECURSIVE InsertionSortFrom(_, _, _, _, _)
InsertionSortFrom(arr, keys, first, lo, hi) ==
    CASE ~Ready(arr) \/ lo >= hi -> arr
      [] hi - lo = 1 -> InsertionStep(arr, keys, first, lo)
      [] OTHER ->
            LET mid == lo + (hi - lo) \div 2
            IN InsertionSortFrom(InsertionSortFrom(arr, keys, first, lo, mid),
                                 keys, first, mid, hi)

\* std::__insertion_sort(first, last)
InsertionSort(arr, keys, first, last) ==
    IF first = last THEN arr ELSE InsertionSortFrom(arr, keys, first, first + 1, last)

\* std::__unguarded_insertion_sort(first, last), for the positions
\* lo .. hi - 1: the first half of them, then the second
RECURSIVE UnguardedInsertionSort(_, _, _, _)
UnguardedInsertionSort(arr, keys, lo, hi) ==
    CASE ~Ready(arr) \/ lo >= hi -> arr
      [] hi - lo = 1 -> UnguardedLinearInsert(arr, keys, lo, arr[lo])
      [] OTHER ->
            LET mid == lo + (hi - lo) \div 2
            IN UnguardedInsertionSort(UnguardedInsertionSort(arr, keys, lo, mid),
                                      keys, mid, hi)

\* std::__final_insertion_sort(first, last)
FinalInsertionSort(arr, keys, first, last) ==
    IF last - first > SortThreshold
    THEN UnguardedInsertionSort(
             InsertionSort(arr, keys, first, first + SortThreshold),
             keys, first + SortThreshold, last)
    ELSE InsertionSort(arr, keys, first, last)

\* the permutation std::sort applies to a range whose i-th element has key
\* keys[i] under the comparator a.key < b.key: position k of the result
\* holds element SortPermutation(keys, lib)[k] of the input
SortPermutation(keys, lib) ==
    LET n == Len(keys)
        id == AsSeq([k \in 1..n |-> k])
    IN IF n = 0 THEN id
       ELSE IF lib = "libstdcxx"
            THEN FinalInsertionSort(
                     IntrosortLoop(id, keys, 1, n + 1, 2 * FloorLg(n)),
                     keys, 1, n + 1)
            ELSE InsertionSort(id, keys, 1, n + 1)

-----------------------------------------------------------------------------
(* The file system seen by fuzzy::get_system_commands: what stat(),        *)
(* opendir() and readdir() answer for each path.                           *)

\* getenv() returning nullptr
NoEnv == "(null)"

DirEntry(n, t, s, x) == [d_name |-> n, d_type |-> t, stat_ok |-> s, xusr |-> x]

\* seventeen names, each at distance 2 of any other two-letter token
ManyNames ==
    <<"aa", "ab", "ac", "ad", "ae", "af", "ag", "ah", "ai", "aj", "ak", "am",
      "an", "ao", "ap", "aq", "ar">>

\* readdir(): the entries of a directory in enumeration order
ReadDir(path) ==
    CASE path = "/b" ->
           << DirEntry(".", "DT_DIR", TRUE, TRUE),
              DirEntry("..", "DT_DIR", TRUE, TRUE),
              DirEntry("git", "DT_REG", TRUE, TRUE),
              DirEntry("ls", "DT_REG", TRUE, TRUE),
              DirEntry(".hid", "DT_REG", TRUE, TRUE),
              DirEntry("doc", "DT_DIR", TRUE, TRUE),
              DirEntry("data", "DT_REG", TRUE, FALSE),
              DirEntry("dead", "DT_LNK", FALSE, FALSE),
              DirEntry("python", "DT_UNKNOWN", TRUE, TRUE) >>
      [] path = "/u" ->
           << DirEntry(".", "DT_DIR", TRUE, TRUE),
              DirEntry("..", "DT_DIR", TRUE, TRUE),
              DirEntry("ls", "DT_REG", TRUE, TRUE),
              DirEntry("get", "DT_REG", TRUE, TRUE),
              DirEntry("gtk", "DT_LNK", TRUE, TRUE),
              DirEntry("git", "DT_LNK", TRUE, TRUE),
              DirEntry("lighter", "DT_REG", TRUE, TRUE),
              DirEntry("sock", "DT_SOCK", TRUE, TRUE),
              DirEntry("gitk", "DT_UNKNOWN", TRUE, FALSE) >>
      [] path = "/m" ->
           [k \in 1..Len(ManyNames) |-> DirEntry(ManyNames[k], "DT_REG", TRUE, TRUE)]
      [] path = "/l" ->
           << DirEntry("vim", "DT_REG", TRUE, TRUE) >>
      [] OTHER -> <<>>

\* the directories the model knows; "/f" is a regular file and "" no path
Directories == {"/b", "/u", "/m", "/l"}

\* utils::is_directory: present is the set of directories existing now
is_directory(path, present) == path \in Directories /\ path \in present

\* opendir() succeeds: "/l" is a directory the user may not read
CanOpenDir(path) == path \in {"/b", "/u", "/m"}

DirNames == {"/b", "/u", "/m", "/l", "/f", ""}

\* the body of the readdir loop for one entry
scan_entry(entry, commands) ==
    LET filename == entry.d_name
        seen == {commands[i] : i \in 1..Len(commands)}
    IN IF CharAt(filename, 0) = "." THEN commands
       ELSE IF entry.d_type \notin {"DT_REG", "DT_LNK", "DT_UNKNOWN"} THEN commands
       ELSE IF entry.stat_ok /\ entry.xusr /\ filename \notin seen
            THEN Append(commands, filename)
       ELSE commands

\* the readdir loop of one directory for the entries lo .. hi - 1: the
\* first half of them, then the second
RECURSIVE scan_entries(_, _, _, _)
scan_entries(entries, lo, hi, commands) ==
    CASE ~Ready(commands) \/ lo >= hi -> commands
      [] hi - lo = 1 -> scan_entry(entries[lo], commands)
      [] OTHER ->
            LET mid == lo + (hi - lo) \div 2
            IN scan_entries(entries, mid, hi, scan_entries(entries, lo, mid, commands))

\* the loop over the directories of PATH, from directory d on
RECURSIVE scan_paths(_, _, _, _)
scan_paths(paths, d, commands, present) ==
    IF ~Ready(commands) \/ d > Len(paths) THEN commands
    ELSE IF ~is_directory(paths[d], present)
         THEN scan_paths(paths, d + 1, commands, present)
    ELSE IF ~CanOpenDir(paths[d])
         THEN scan_paths(paths, d + 1, commands, present)
    ELSE LET entries == ReadDir(paths[d])
         IN scan_paths(paths, d + 1,
                       scan_entries(entries, 1, Len(entries) + 1, commands), present)

get_system_commands_no_dedup(path_env, present) ==
    IF path_env = NoEnv THEN <<>>
    ELSE LET paths == getlines_from(path_env, ":", 0, <<>>)
             all == [d \in 1..Len(paths) |->
                        IF is_directory(paths[d], present) /\ CanOpenDir(paths[d])
                        THEN LET entries == ReadDir(paths[d])
                             IN scan_entries(entries, 1, Len(entries) + 1, <<>>)
                        ELSE <<>>]
             RECURSIVE cat(_)
             cat(d) == IF d > Len(paths) THEN <<>> ELSE all[d] \o cat(d + 1)
         IN cat(1)

\* fuzzy::get_system_commands
get_system_commands(path_env, present) ==
    IF path_env = NoEnv THEN <<>>
    ELSE scan_paths(getlines_from(path_env, ":", 0, <<>>), 1, <<>>, present)

-----------------------------------------------------------------------------
(* fuzzy::CommandCache and fuzzy::find_similar_commands *)

\* the static cache before its first use; builds counts the calls of
\* get_system_commands made through it
NewCommandCache == [cached_commands |-> <<>>, initialized |-> FALSE, builds |-> 0]

get_commands_rebuild_when_empty(c, path_env, present) ==
    IF ~c.initialized \/ c.cached_commands = <<>>
    THEN [cached_commands |-> get_system_commands(path_env, present),
          initialized |-> TRUE, builds |-> c.builds + 1]
    ELSE c

\* CommandCache::get_commands: the cache after the call (its cached_commands
\* is the list returned)
get_commands(c, path_env, present) ==
    IF ~c.initialized
    THEN [cached_commands |-> get_system_commands(path_env, present),
          initialized |-> TRUE, builds |-> c.builds + 1]
    ELSE c

CommandMatch(c, d) == [command |-> c, distance |-> d]

\* the loop of find_similar_commands for the commands lo .. hi - 1: the
\* matches pushed, in index order
RECURSIVE collect_matches(_, _, _, _, _)
collect_matches(input, max_distance, commands, lo, hi) ==
    CASE lo >= hi -> <<>>
      [] hi - lo = 1 ->
            LET dist == levenshtein_distance(input, commands[lo])
            IN IF dist <= max_distance
               THEN <<CommandMatch(commands[lo], dist)>>
               ELSE <<>>
      [] OTHER ->
            LET mid == lo + (hi - lo) \div 2
            IN collect_matches(input, max_distance, commands, lo, mid)
                   \o collect_matches(input, max_distance, commands, mid, hi)

\* the loop of find_similar_commands over all the commands
all_matches(input, max_distance, commands) ==
    collect_matches(input, max_distance, commands, 1, Len(commands) + 1)

\* std::sort(matches.begin(), matches.end(), compare_matches)
sort_matches(matches, lib) ==
    LET perm == SortPermutation(AsSeq([k \in 1..Len(matches) |-> matches[k].distance]),
                                lib)
    IN AsSeq([k \in 1..Len(matches) |-> matches[perm[k]]])

DefaultMaxDistance == 2

\* fuzzy::find_similar_commands: the matches returned and the cache afterwards.
\* env is what the process reads from outside: [PATH, present, files, stdlib]
find_similar_commands(input, max_distance, c, env) ==
    LET c1 == get_commands(c, env.PATH, env.present)
    IN [matches |-> sort_matches(
                        all_matches(input, max_distance, c1.cached_commands),
                        env.stdlib),
        cache |-> c1]

-----------------------------------------------------------------------------
(* The rule catalogue: for each RULE_CLASS its match and get_new_command.  *)
(* cmd is a Command; a candidate list is a sequence of strings.            *)

\* " " + script_parts[i] for every i from `from` (1-based) on
RECURSIVE append_parts(_, _, _)
append_parts(fixed, parts, from) ==
    IF from > Len(parts) THEN fixed
    ELSE append_parts(fixed \o " " \o parts[from], parts, from + 1)

SudoRule_match(cmd) ==
    LET lower == to_lower(cmd.output)
    IN \/ contains(lower, "permission denied")
       \/ contains(lower, "Permission denied")
       \/ contains(lower, "EACCES")
       \/ contains(cmd.output, "unless you are root")

SudoRule_get_new_command(cmd) == <<"sudo " \o cmd.script>>

GitPushRule_match(cmd) ==
    /\ starts_with(cmd.script, "git push")
    /\ contains(cmd.output, "has no upstream branch")

BranchChars ==
    {"a", "b", "c", "d", "e", "f", "g", "h", "i", "j", "k", "l", "m", "n", "o",
     "p", "q", "r", "s", "t", "u", "v", "w", "x", "y", "z",
     "A", "B", "C", "D", "E", "F", "G", "H", "I", "J", "K", "L", "M", "N", "O",
     "P", "Q", "R", "S", "T", "U", "V", "W", "X", "Y", "Z",
     "0", "1", "2", "3", "4", "5", "6", "7", "8", "9", "_", "-"}

LowerLetters ==
    {"a", "b", "c", "d", "e", "f", "g", "h", "i", "j", "k", "l", "m", "n", "o",
     "p", "q", "r", "s", "t", "u", "v", "w", "x", "y", "z"}

RegexSpaces == {" ", "\t", "\n", "\r", "\f"}

\* the longest run of characters of class, from 0-based position pos on
run_of(s, pos, class) ==
    LET stop == SetMin({p \in pos..Len(s) : CharAt(s, p) \notin class})
    IN SubSeq(s, pos + 1, stop)

\* std::regex_search of  prefix(class+)  with optional \s+ after the prefix:
\* the capture of the leftmost match, or "" when there is no match
RECURSIVE regex_capture_from(_, _, _, _, _)
regex_capture_from(s, from, prefix, spaces, class) ==
    LET tail == Substr(s, from)
        p == Find(tail, prefix)
        after == from + p + Len(prefix)
        gap == IF spaces THEN run_of(s, after, RegexSpaces) ELSE ""
        cap == run_of(s, after + Len(gap), class)
    IN IF p = NPOS THEN ""
       ELSE IF (spaces => gap # "") /\ cap # "" THEN cap
       ELSE regex_capture_from(s, from + p + 1, prefix, spaces, class)

GitPushRule_get_new_command(cmd) ==
    LET branch == regex_capture_from(cmd.output, 0,
                      "git push --set-upstream origin ", FALSE, BranchChars)
    IN IF branch # "" THEN <<"git push --set-upstream origin " \o branch>>
       ELSE <<"git push --set-upstream origin master">>

\* NoCommandRule::match without its "command not found" test
NoCommandRule_match_no_command_only(cmd) == contains(cmd.output, "No command")

NoCommandRule_match(cmd) ==
    \/ contains(cmd.output, "command not found")
    \/ contains(cmd.output, "No command")

NoCommandTypos ==
    ("puthon" :> "python") @@ ("pytohn" :> "python") @@ ("gti" :> "git") @@
    ("vom" :> "vim") @@ ("claer" :> "clear") @@ ("cd.." :> "cd ..") @@
    ("sl" :> "ls") @@ ("grpe" :> "grep") @@ ("pyton" :> "python")

NoCommandRule_get_new_command(cmd) ==
    IF cmd.script_parts # <<>> /\ cmd.script_parts[1] \in DOMAIN NoCommandTypos
    THEN <<append_parts(NoCommandTypos[cmd.script_parts[1]], cmd.script_parts, 2)>>
    ELSE <<cmd.script>>

GitNotCommandRule_match(cmd) ==
    /\ starts_with(cmd.script, "git")
    /\ contains(cmd.output, "is not a git command")

GitNotCommandRule_get_new_command(cmd) ==
    LET similar == regex_capture_from(cmd.output, 0,
                       "The most similar command is", TRUE, LowerLetters)
    IN IF similar # ""
       THEN <<append_parts("git " \o similar, cmd.script_parts, 3)>>
       ELSE <<cmd.script>>

GitNotRepositoryRule_match(cmd) ==
    /\ starts_with(cmd.script, "git")
    /\ contains(cmd.output,
                "fatal: not a git repository (or any of the parent directories):")

GitNotRepositoryRule_get_new_command(cmd) == <<"git create">>

CdMkdirRule_match(cmd) ==
    /\ starts_with(cmd.script, "cd ")
    /\ \/ contains(cmd.output, "No such file or directory")
       \/ contains(cmd.output, "cannot access")

CdMkdirRule_get_new_command(cmd) ==
    IF Len(cmd.script_parts) >= 2
    THEN <<"mkdir -p " \o cmd.script_parts[2] \o " && cd " \o cmd.script_parts[2]>>
    ELSE <<cmd.script>>

CdParentRule_match(cmd) == cmd.script = "cd.."

CdParentRule_get_new_command(cmd) == <<"cd ..">>

CdCsRule_match(cmd) == starts_with(cmd.script, "cs ")

CdCsRule_get_new_command(cmd) == <<"cd " \o Substr(cmd.script, 3)>>

CatDirRule_match(cmd) ==
    /\ starts_with(cmd.script, "cat ")
    /\ \/ contains(cmd.output, "Is a directory")
       \/ contains(cmd.output, "is a directory")

CatDirRule_get_new_command(cmd) == <<"ls " \o Substr(cmd.script, 4)>>

ChmodXRule_match(cmd) ==
    /\ contains(cmd.output, "Permission denied")
    /\ Len(cmd.script_parts) >= 1
    /\ CharAt(cmd.script_parts[1], 0) = "."
    /\ CharAt(cmd.script_parts[1], 1) = "/"

ChmodXRule_get_new_command(cmd) ==
    <<"chmod +x " \o cmd.script_parts[1] \o " && " \o cmd.script>>

CpOmittingDirectoryRule_match(cmd) ==
    /\ starts_with(cmd.script, "cp ")
    /\ contains(cmd.output, "omitting directory")

CpOmittingDirectoryRule_get_new_command(cmd) == <<"cp -r " \o Substr(cmd.script, 3)>>

DryRule_match(cmd) ==
    IF Len(cmd.script_parts) < 2 THEN FALSE
    ELSE cmd.script_parts[1] = cmd.script_parts[2]

DryRule_get_new_command(cmd) ==
    <<append_parts(cmd.script_parts[1], cmd.script_parts, 3)>>

GitAddRule_match(cmd) ==
    /\ starts_with(cmd.script, "git add")
    /\ contains(cmd.output, "did not match any file")

GitAddRule_get_new_command(cmd) == <<"git add -A">>

GitAddForceRule_match(cmd) ==
    /\ starts_with(cmd.script, "git add")
    /\ \/ contains(cmd.output, ".gitignore")
       \/ contains(cmd.output, "ignored")

GitAddForceRule_get_new_command(cmd) == <<cmd.script \o " --force">>

GitBranchDeleteRule_match(cmd) ==
    /\ contains(cmd.script, "git branch -d")
    /\ contains(cmd.output, "not fully merged")

GitBranchDeleteRule_get_new_command(cmd) ==
    << SubstrN(cmd.script, 0, Find(cmd.script, "-d")) \o "-D"
       \o Substr(cmd.script, Find(cmd.script, "-d") + 2) >>

GitCommitAddRule_match(cmd) ==
    /\ starts_with(cmd.script, "git commit")
    /\ contains(cmd.output, "no changes added to commit")

GitCommitAddRule_get_new_command(cmd) ==
    LET rest == IF Len(cmd.script) > 10 THEN Substr(cmd.script, 10) ELSE ""
    IN <<"git commit -a" \o rest, "git commit -p" \o rest>>

GitCommitAmendRule_match(cmd) ==
    /\ starts_with(cmd.script, "git commit")
    /\ ~contains(cmd.script, "--amend")

GitCommitAmendRule_get_new_command(cmd) == <<cmd.script \o " --amend">>

GitPullRule_match(cmd) ==
    /\ starts_with(cmd.script, "git pull")
    /\ contains(cmd.output, "no tracking information")

GitPullRule_get_new_command(cmd) ==
    <<"git branch --set-upstream-to=origin/master master && git pull">>

GitTwoDashesRule_match(cmd) ==
    /\ starts_with(cmd.script, "git ")
    /\ \/ contains(cmd.script, " -amend")
       \/ contains(cmd.script, " -continue")
       \/ contains(cmd.script, " -abort")

GitTwoDashesRule_get_new_command(cmd) ==
    LET fixed == cmd.script
    IN IF Find(fixed, " -amend") # NPOS
       THEN <<Replace(fixed, Find(fixed, " -amend"), 7, " --amend")>>
       ELSE IF Find(fixed, " -continue") # NPOS
       THEN <<Replace(fixed, Find(fixed, " -continue"), 10, " --continue")>>
       ELSE IF Find(fixed, " -abort") # NPOS
       THEN <<Replace(fixed, Find(fixed, " -abort"), 7, " --abort")>>
       ELSE <<fixed>>

GrepRecursiveRule_match(cmd) ==
    /\ starts_with(cmd.script, "grep ")
    /\ contains(cmd.output, "Is a directory")

GrepRecursiveRule_get_new_command(cmd) == <<"grep -r " \o Substr(cmd.script, 5)>>

\* utils::file_exists
file_exists(path, fs) == path \in fs

HasExistsScriptRule_match(cmd, fs) ==
    /\ contains(cmd.output, "command not found")
    /\ cmd.script_parts # <<>>
    /\ file_exists(cmd.script_parts[1], fs)

HasExistsScriptRule_get_new_command(cmd) == <<"./" \o cmd.script>>

LsAllRule_match(cmd) == cmd.script = "ls" /\ cmd.output = ""

LsAllRule_get_new_command(cmd) == <<"ls -A">>

LsLahRule_match(cmd) == cmd.script = "ls" /\ cmd.output # ""

LsLahRule_get_new_command(cmd) == <<"ls -lah">>

MkdirPRule_match(cmd) ==
    /\ starts_with(cmd.script, "mkdir ")
    /\ contains(cmd.output, "No such file or directory")

MkdirPRule_get_new_command(cmd) == <<"mkdir -p " \o Substr(cmd.script, 6)>>

RmDirRule_match(cmd) ==
    /\ starts_with(cmd.script, "rm ")
    /\ \/ contains(cmd.output, "is a directory")
       \/ contains(cmd.output, "Is a directory")

RmDirRule_get_new_command(cmd) == <<"rm -rf " \o Substr(cmd.script, 3)>>

SlLsRule_match(cmd) == cmd.script = "sl" \/ starts_with(cmd.script, "sl ")

SlLsRule_get_new_command(cmd) == <<"ls" \o Substr(cmd.script, 2)>>

PythonCommandRule_match(cmd) ==
    /\ contains(cmd.output, "Permission denied")
    /\ cmd.script_parts # <<>>
    /\ ends_with(cmd.script_parts[1], ".py")

PythonCommandRule_get_new_command(cmd) == <<"python " \o cmd.script>>

PythonExecuteRule_match(cmd) ==
    /\ starts_with(cmd.script, "python ")
    /\ contains(cmd.output, "No such file")
    /\ ~ends_with(cmd.script, ".py")

PythonExecuteRule_get_new_command(cmd) == <<cmd.script \o ".py">>

JavaRule_match(cmd) ==
    /\ starts_with(cmd.script, "java ")
    /\ ends_with(cmd.script_parts[Len(cmd.script_parts)], ".java")

JavaRule_get_new_command(cmd) == <<SubstrN(cmd.script, 0, Len(cmd.script) - 5)>>

JavacRule_match(cmd) ==
    /\ starts_with(cmd.script, "javac ")
    /\ contains(cmd.output, "No such file")
    /\ ~ends_with(cmd.script, ".java")

JavacRule_get_new_command(cmd) == <<cmd.script \o ".java">>

GoRunRule_match(cmd) ==
    /\ starts_with(cmd.script, "go run ")
    /\ ~ends_with(cmd.script, ".go")

GoRunRule_get_new_command(cmd) == <<cmd.script \o ".go">>

CargoRule_match(cmd) == cmd.script = "cargo"

CargoRule_get_new_command(cmd) == <<"cargo build">>

DockerNotCommandRule_match(cmd) ==
    /\ starts_with(cmd.script, "docker ")
    /\ contains(cmd.output, "is not a docker command")

DockerCommon == ("tags" :> "images") @@ ("tag" :> "image")

DockerNotCommandRule_get_new_command(cmd) ==
    IF Len(cmd.script_parts) > 1 /\ cmd.script_parts[2] \in DOMAIN DockerCommon
    THEN <<"docker " \o DockerCommon[cmd.script_parts[2]]>>
    ELSE <<cmd.script>>

NpmWrongCommandRule_match(cmd) ==
    /\ starts_with(cmd.script, "npm ")
    /\ contains(cmd.output, "Unknown command")

NpmTypos ==
    ("urgrade" :> "upgrade") @@ ("isntall" :> "install") @@
    ("instal" :> "install") @@ ("intsall" :> "install")

NpmWrongCommandRule_get_new_command(cmd) ==
    IF Len(cmd.script_parts) > 1 /\ cmd.script_parts[2] \in DOMAIN NpmTypos
    THEN <<"npm " \o NpmTypos[cmd.script_parts[2]]>>
    ELSE <<cmd.script>>

PipUnknownCommandRule_match(cmd) ==
    /\ starts_with(cmd.script, "pip ")
    /\ contains(cmd.output, "unknown command")

PipTypos ==
    ("instatl" :> "install") @@ ("instal" :> "install") @@
    ("isntall" :> "install") @@ ("unisntall" :> "uninstall")

PipUnknownCommandRule_get_new_command(cmd) ==
    IF Len(cmd.script_parts) > 1 /\ cmd.script_parts[2] \in DOMAIN PipTypos
    THEN <<"pip " \o PipTypos[cmd.script_parts[2]]>>
    ELSE <<cmd.script>>

GitCloneGitCloneRule_match(cmd) == starts_with(cmd.script, "git clone git clone")

GitCloneGitCloneRule_get_new_command(cmd) == <<Substr(cmd.script, 10)>>

WrongHyphenBeforeSubcommandRule_match(cmd) ==
    /\ contains(cmd.output, "command not found")
    /\ Len(cmd.script_parts) > 0
    /\ contains(cmd.script_parts[1], "-")

WrongHyphenBeforeSubcommandRule_get_new_command(cmd) ==
    LET pos == Find(cmd.script, "-")
    IN IF pos # NPOS THEN <<Replace(cmd.script, pos, 1, " ")>> ELSE <<cmd.script>>

MissingSpaceBeforeSubcommandRule_match(cmd) ==
    /\ contains(cmd.output, "command not found")
    /\ \/ starts_with(cmd.script, "npm")
       \/ starts_with(cmd.script, "git")
       \/ starts_with(cmd.script, "apt")

MissingSpaceBeforeSubcommandRule_get_new_command(cmd) ==
    IF starts_with(cmd.script, "npminstall")
    THEN <<"npm install" \o Substr(cmd.script, 10)>>
    ELSE IF starts_with(cmd.script, "gitcommit")
    THEN <<"git commit" \o Substr(cmd.script, 9)>>
    ELSE IF starts_with(cmd.script, "aptinstall")
    THEN <<"apt install" \o Substr(cmd.script, 10)>>
    ELSE <<cmd.script>>

RemoveShellPromptLiteralRule_match(cmd) == starts_with(cmd.script, "$ ")

RemoveShellPromptLiteralRule_get_new_command(cmd) == <<Substr(cmd.script, 2)>>

TouchRule_match(cmd) ==
    /\ starts_with(cmd.script, "touch ")
    /\ contains(cmd.output, "No such file or directory")

TouchRule_get_new_command(cmd) ==
    LET path == Substr(cmd.script, 6)
        last_slash == RFind(path, "/")
    IN IF last_slash # NPOS
       THEN <<"mkdir -p " \o SubstrN(path, 0, last_slash) \o " && touch " \o path>>
       ELSE <<cmd.script>>

UnsudoRule_match(cmd) ==
    /\ starts_with(cmd.script, "sudo ")
    /\ \/ contains(cmd.output, "must not be run as root")
       \/ contains(cmd.output, "don't run this as root")

UnsudoRule_get_new_command(cmd) == <<Substr(cmd.script, 5)>>

LnSOrderRule_match(cmd) ==
    /\ starts_with(cmd.script, "ln -s")
    /\ contains(cmd.output, "No such file or directory")

LnSOrderRule_get_new_command(cmd) ==
    IF Len(cmd.script_parts) >= 4
    THEN <<"ln -s " \o cmd.script_parts[4] \o " " \o cmd.script_parts[3]>>
    ELSE <<cmd.script>>

Cpp11Rule_match(cmd) ==
    /\ starts_with(cmd.script, "g++ ") \/ starts_with(cmd.script, "clang++ ")
    /\ ~contains(cmd.script, "-std=")
    /\ contains(cmd.output, "C++11") \/ contains(cmd.output, "c++11")

Cpp11Rule_get_new_command(cmd) == <<cmd.script \o " -std=c++11">>

GitMainMasterRule_match(cmd) ==
    \/ contains(cmd.script, "master") /\ contains(cmd.output, "did you mean 'main'")
    \/ contains(cmd.script, "main") /\ contains(cmd.output, "did you mean 'master'")

GitMainMasterRule_get_new_command(cmd) ==
    IF contains(cmd.script, "master")
    THEN <<Replace(cmd.script, Find(cmd.script, "master"), 6, "main")>>
    ELSE <<Replace(cmd.script, Find(cmd.script, "main"), 4, "master")>>

-----------------------------------------------------------------------------
(* FuzzyCommandRule.  A rule that consults the executable index returns,   *)
(* with its value, the static cache as the call leaves it.                 *)

SuggestionDistance == 3

MaxSuggestions == 3

Returned(v, c) == [val |-> v, cache |-> c]

FuzzyCommandRule_match_distance_3(cmd, c, env) ==
    IF ~contains(cmd.output, "command not found") THEN Returned(FALSE, c)
    ELSE IF cmd.script_parts = <<>> THEN Returned(FALSE, c)
    ELSE LET found == find_similar_commands(cmd.script_parts[1], SuggestionDistance, c, env)
         IN Returned(found.matches # <<>>, found.cache)

FuzzyCommandRule_match(cmd, c, env) ==
    IF ~contains(cmd.output, "command not found") THEN Returned(FALSE, c)
    ELSE IF cmd.script_parts = <<>> THEN Returned(FALSE, c)
    ELSE LET found == find_similar_commands(cmd.script_parts[1], DefaultMaxDistance, c, env)
         IN Returned(found.matches # <<>>, found.cache)

FuzzyCommandRule_get_new_command(cmd, c, env) ==
    IF cmd.script_parts = <<>> THEN Returned(<<>>, c)
    ELSE LET found == find_similar_commands(cmd.script_parts[1], SuggestionDistance, c, env)
             matches == found.matches
         IN Returned([i \in 1..Min2(Len(matches), MaxSuggestions) |->
                         append_parts(matches[i].command, cmd.script_parts, 2)],
                     found.cache)

-----------------------------------------------------------------------------
(* Rule: the virtual interface, dispatched on the rule's class name *)

DefaultPriority == 1000

\* get_priority with an override in HasExistsScriptRule that sorts it first
get_priority_script_rule_first(rule) ==
    IF rule = "HasExistsScriptRule" THEN DefaultPriority - 1 ELSE DefaultPriority

\* Rule::get_priority (no rule overrides it)
get_priority(rule) == DefaultPriority

\* rule->match(cmd)
rule_match(rule, cmd, c, env) ==
    CASE rule = "SudoRule" -> Returned(SudoRule_match(cmd), c)
      [] rule = "FuzzyCommandRule" -> FuzzyCommandRule_match(cmd, c, env)
      [] rule = "GitPushRule" -> Returned(GitPushRule_match(cmd), c)
      [] rule = "NoCommandRule" -> Returned(NoCommandRule_match(cmd), c)
      [] rule = "GitNotCommandRule" -> Returned(GitNotCommandRule_match(cmd), c)
      [] rule = "GitNotRepositoryRule" -> Returned(GitNotRepositoryRule_match(cmd), c)
      [] rule = "CdMkdirRule" -> Returned(CdMkdirRule_match(cmd), c)
      [] rule = "CdParentRule" -> Returned(CdParentRule_match(cmd), c)
      [] rule = "CdCsRule" -> Returned(CdCsRule_match(cmd), c)
      [] rule = "CatDirRule" -> Returned(CatDirRule_match(cmd), c)
      [] rule = "ChmodXRule" -> Returned(ChmodXRule_match(cmd), c)
      [] rule = "CpOmittingDirectoryRule" -> Returned(CpOmittingDirectoryRule_match(cmd), c)
      [] rule = "DryRule" -> Returned(DryRule_match(cmd), c)
      [] rule = "GitAddRule" -> Returned(GitAddRule_match(cmd), c)
      [] rule = "GitAddForceRule" -> Returned(GitAddForceRule_match(cmd), c)
      [] rule = "GitBranchDeleteRule" -> Returned(GitBranchDeleteRule_match(cmd), c)
      [] rule = "GitCommitAddRule" -> Returned(GitCommitAddRule_match(cmd), c)
      [] rule = "GitCommitAmendRule" -> Returned(GitCommitAmendRule_match(cmd), c)
      [] rule = "GitPullRule" -> Returned(GitPullRule_match(cmd), c)
      [] rule = "GitTwoDashesRule" -> Returned(GitTwoDashesRule_match(cmd), c)
      [] rule = "GrepRecursiveRule" -> Returned(GrepRecursiveRule_match(cmd), c)
      [] rule = "HasExistsScriptRule" -> Returned(HasExistsScriptRule_match(cmd, env.files), c)
      [] rule = "LsAllRule" -> Returned(LsAllRule_match(cmd), c)
      [] rule = "LsLahRule" -> Returned(LsLahRule_match(cmd), c)
      [] rule = "MkdirPRule" -> Returned(MkdirPRule_match(cmd), c)
      [] rule = "RmDirRule" -> Returned(RmDirRule_match(cmd), c)
      [] rule = "SlLsRule" -> Returned(SlLsRule_match(cmd), c)
      [] rule = "PythonCommandRule" -> Returned(PythonCommandRule_match(cmd), c)
      [] rule = "PythonExecuteRule" -> Returned(PythonExecuteRule_match(cmd), c)
      [] rule = "JavaRule" -> Returned(JavaRule_match(cmd), c)
      [] rule = "JavacRule" -> Returned(JavacRule_match(cmd), c)
      [] rule = "GoRunRule" -> Returned(GoRunRule_match(cmd), c)
      [] rule = "CargoRule" -> Returned(CargoRule_match(cmd), c)
      [] rule = "DockerNotCommandRule" -> Returned(DockerNotCommandRule_match(cmd), c)
      [] rule = "NpmWrongCommandRule" -> Returned(NpmWrongCommandRule_match(cmd), c)
      [] rule = "PipUnknownCommandRule" -> Returned(PipUnknownCommandRule_match(cmd), c)
      [] rule = "GitCloneGitCloneRule" -> Returned(GitCloneGitCloneRule_match(cmd), c)
      [] rule = "WrongHyphenBeforeSubcommandRule" ->
             Returned(WrongHyphenBeforeSubcommandRule_match(cmd), c)
      [] rule = "MissingSpaceBeforeSubcommandRule" ->
             Returned(MissingSpaceBeforeSubcommandRule_match(cmd), c)
      [] rule = "RemoveShellPromptLiteralRule" ->
             Returned(RemoveShellPromptLiteralRule_match(cmd), c)
      [] rule = "TouchRule" -> Returned(TouchRule_match(cmd), c)
      [] rule = "UnsudoRule" -> Returned(UnsudoRule_match(cmd), c)
      [] rule = "LnSOrderRule" -> Returned(LnSOrderRule_match(cmd), c)
      [] rule = "Cpp11Rule" -> Returned(Cpp11Rule_match(cmd), c)
      [] rule = "GitMainMasterRule" -> Returned(GitMainMasterRule_match(cmd), c)

\* rule->get_new_command(cmd)
rule_get_new_command(rule, cmd, c, env) ==
    CASE rule = "SudoRule" -> Returned(SudoRule_get_new_command(cmd), c)
      [] rule = "FuzzyCommandRule" -> FuzzyCommandRule_get_new_command(cmd, c, env)
      [] rule = "GitPushRule" -> Returned(GitPushRule_get_new_command(cmd), c)
      [] rule = "NoCommandRule" -> Returned(NoCommandRule_get_new_command(cmd), c)
      [] rule = "GitNotCommandRule" -> Returned(GitNotCommandRule_get_new_command(cmd), c)
      [] rule = "GitNotRepositoryRule" ->
             Returned(GitNotRepositoryRule_get_new_command(cmd), c)
      [] rule = "CdMkdirRule" -> Returned(CdMkdirRule_get_new_command(cmd), c)
      [] rule = "CdParentRule" -> Returned(CdParentRule_get_new_command(cmd), c)
      [] rule = "CdCsRule" -> Returned(CdCsRule_get_new_command(cmd), c)
      [] rule = "CatDirRule" -> Returned(CatDirRule_get_new_command(cmd), c)
      [] rule = "ChmodXRule" -> Returned(ChmodXRule_get_new_command(cmd), c)
      [] rule = "CpOmittingDirectoryRule" ->
             Returned(CpOmittingDirectoryRule_get_new_command(cmd), c)
      [] rule = "DryRule" -> Returned(DryRule_get_new_command(cmd), c)
      [] rule = "GitAddRule" -> Returned(GitAddRule_get_new_command(cmd), c)
      [] rule = "GitAddForceRule" -> Returned(GitAddForceRule_get_new_command(cmd), c)
      [] rule = "GitBranchDeleteRule" ->
             Returned(GitBranchDeleteRule_get_new_command(cmd), c)
      [] rule = "GitCommitAddRule" -> Returned(GitCommitAddRule_get_new_command(cmd), c)
      [] rule = "GitCommitAmendRule" -> Returned(GitCommitAmendRule_get_new_command(cmd), c)
      [] rule = "GitPullRule" -> Returned(GitPullRule_get_new_command(cmd), c)
      [] rule = "GitTwoDashesRule" -> Returned(GitTwoDashesRule_get_new_command(cmd), c)
      [] rule = "GrepRecursiveRule" -> Returned(GrepRecursiveRule_get_new_command(cmd), c)
      [] rule = "HasExistsScriptRule" ->
             Returned(HasExistsScriptRule_get_new_command(cmd), c)
      [] rule = "LsAllRule" -> Returned(LsAllRule_get_new_command(cmd), c)
      [] rule = "LsLahRule" -> Returned(LsLahRule_get_new_command(cmd), c)
      [] rule = "MkdirPRule" -> Returned(MkdirPRule_get_new_command(cmd), c)
      [] rule = "RmDirRule" -> Returned(RmDirRule_get_new_command(cmd), c)
      [] rule = "SlLsRule" -> Returned(SlLsRule_get_new_command(cmd), c)
      [] rule = "PythonCommandRule" -> Returned(PythonCommandRule_get_new_command(cmd), c)
      [] rule = "PythonExecuteRule" -> Returned(PythonExecuteRule_get_new_command(cmd), c)
      [] rule = "JavaRule" -> Returned(JavaRule_get_new_command(cmd), c)
      [] rule = "JavacRule" -> Returned(JavacRule_get_new_command(cmd), c)
      [] rule = "GoRunRule" -> Returned(GoRunRule_get_new_command(cmd), c)
      [] rule = "CargoRule" -> Returned(CargoRule_get_new_command(cmd), c)
      [] rule = "DockerNotCommandRule" ->
             Returned(DockerNotCommandRule_get_new_command(cmd), c)
      [] rule = "NpmWrongCommandRule" ->
             Returned(NpmWrongCommandRule_get_new_command(cmd), c)
      [] rule = "PipUnknownCommandRule" ->
             Returned(PipUnknownCommandRule_get_new_command(cmd), c)
      [] rule = "GitCloneGitCloneRule" ->
             Returned(GitCloneGitCloneRule_get_new_command(cmd), c)
      [] rule = "WrongHyphenBeforeSubcommandRule" ->
             Returned(WrongHyphenBeforeSubcommandRule_get_new_command(cmd), c)
      [] rule = "MissingSpaceBeforeSubcommandRule" ->
             Returned(MissingSpaceBeforeSubcommandRule_get_new_command(cmd), c)
      [] rule = "RemoveShellPromptLiteralRule" ->
             Returned(RemoveShellPromptLiteralRule_get_new_command(cmd), c)
      [] rule = "TouchRule" -> Returned(TouchRule_get_new_command(cmd), c)
      [] rule = "UnsudoRule" -> Returned(UnsudoRule_get_new_command(cmd), c)
      [] rule = "LnSOrderRule" -> Returned(LnSOrderRule_get_new_command(cmd), c)
      [] rule = "Cpp11Rule" -> Returned(Cpp11Rule_get_new_command(cmd), c)
      [] rule = "GitMainMasterRule" -> Returned(GitMainMasterRule_get_new_command(cmd), c)

-----------------------------------------------------------------------------
(* RuleManager *)

\* the rules in the order of the push_back calls of the constructor
Registration ==
    << "SudoRule", "FuzzyCommandRule", "GitPushRule", "NoCommandRule",
       "GitNotCommandRule", "CdMkdirRule", "CdParentRule", "CdCsRule",
       "CatDirRule", "ChmodXRule", "CpOmittingDirectoryRule", "DryRule",
       "GitAddRule", "GitAddForceRule", "GitBranchDeleteRule", "GitCommitAddRule",
       "GitCommitAmendRule", "GitPullRule", "GitTwoDashesRule", "GrepRecursiveRule",
       "HasExistsScriptRule", "LsAllRule", "LsLahRule", "MkdirPRule", "RmDirRule",
       "SlLsRule", "PythonCommandRule", "PythonExecuteRule", "JavaRule", "JavacRule",
       "GoRunRule", "CargoRule", "DockerNotCommandRule", "NpmWrongCommandRule",
       "PipUnknownCommandRule", "GitCloneGitCloneRule",
       "WrongHyphenBeforeSubcommandRule", "MissingSpaceBeforeSubcommandRule",
       "RemoveShellPromptLiteralRule", "TouchRule", "UnsudoRule", "LnSOrderRule",
       "Cpp11Rule", "GitMainMasterRule" >>

\* RuleManager::RuleManager: the registry after the push_backs and the
\* std::sort by priority, for each library
SortedRegistry ==
    LET priorities == AsSeq([k \in 1..Len(Registration) |->
                                get_priority(Registration[k])])
        sorted(lib) == LET perm == SortPermutation(priorities, lib)
                       IN AsSeq([k \in 1..Len(Registration) |-> Registration[perm[k]]])
    IN [stable |-> sorted("stable"), libstdcxx |-> sorted("libstdcxx")]

RuleManager(lib) == SortedRegistry[lib]

NoRule == "(none)"

\* the loop of get_corrected_commands for the rules lo .. hi - 1, the first
\* half of them and then, unless one of those returned, the second: the
\* list returned, the cache afterwards and the rule that produced the list
RECURSIVE dispatch_from(_, _, _, _, _, _)
dispatch_from(rs, lo, hi, cmd, c, env) ==
    CASE lo >= hi -> [corrections |-> <<>>, cache |-> c, fired |-> NoRule]
      [] hi - lo = 1 ->
            LET m == rule_match(rs[lo], cmd, c, env)
                n == rule_get_new_command(rs[lo], cmd, m.cache, env)
            IN IF m.val
               THEN [corrections |-> n.val, cache |-> n.cache, fired |-> rs[lo]]
               ELSE [corrections |-> <<>>, cache |-> m.cache, fired |-> NoRule]
      [] OTHER ->
            LET mid == lo + (hi - lo) \div 2
                half == dispatch_from(rs, lo, mid, cmd, c, env)
            IN IF half.fired # NoRule THEN half
               ELSE dispatch_from(rs, mid, hi, cmd, half.cache, env)

\* the same loop without the return: the lists of all the matching rules
RECURSIVE every_match_from(_, _, _, _, _, _)
every_match_from(rs, lo, hi, cmd, c, env) ==
    IF lo >= hi THEN [corrections |-> <<>>, cache |-> c, fired |-> NoRule]
    ELSE IF hi - lo = 1 THEN dispatch_from(rs, lo, hi, cmd, c, env)
    ELSE LET mid == lo + (hi - lo) \div 2
             half == every_match_from(rs, lo, mid, cmd, c, env)
             rest == every_match_from(rs, mid, hi, cmd, half.cache, env)
         IN [corrections |-> half.corrections \o rest.corrections,
             cache |-> rest.cache,
             fired |-> IF rest.fired # NoRule THEN rest.fired ELSE half.fired]

get_corrected_commands_of_every_match(rs, cmd, c, env) ==
    every_match_from(rs, 1, Len(rs) + 1, cmd, c, env)

\* RuleManager::get_corrected_commands
get_corrected_commands(rs, cmd, c, env) == dispatch_from(rs, 1, Len(rs) + 1, cmd, c, env)

-----------------------------------------------------------------------------
(* main: the retry loop around the RuleManager *)

MaxAttemptsRecursive == 10

\* the loop bound one larger in recursive mode
max_attempts_one_more(rec) == IF rec THEN MaxAttemptsRecursive + 1 ELSE 1

\* const int max_attempts = recursive ? 10 : 1
max_attempts(rec) == IF rec THEN MaxAttemptsRecursive ELSE 1

\* what the process reads from outside in the current state
Env == [PATH |-> PATH, present |-> dirs_present, files |-> files, stdlib |-> stdlib]

\* the last history line and the output of running it again: what
\* get_last_command and execute_command hand to main
HistoryInputs ==
    { <<"gti status", "gti: command not found">>,
      <<"sl", "bash: sl: command not found">>,
      <<"ls", "">>,
      <<"git commit -amend", "error: unknown switch `m'">>,
      <<"git rebase -continue", "error: unknown switch `c'">>,
      <<"cd foo", "cd: foo: No such file or directory">>,
      <<"npm i", "npm ERR! code EACCES">>,
      <<"make install", "PERMISSION DENIED">>,
      <<"reboot", "must be superuser unless you are root">>,
      <<"ligh", "ligh: command not found">>,
      <<"git push", "fatal: The current branch has no upstream branch">>,
      <<"npm isntall express", "Unknown command: \"isntall\"">>,
      <<"apt-get x", "apt-get: command not found">>,
      <<"gitcommit -m x", "gitcommit: command not found">>,
      <<"echo hi", "hi">> }

\* what running a correction may print
RetryOutputs == {"", "sudo: command not found"}

\* the values of PATH main is started with
MainPaths == {NoEnv, "/u:/b"}

MainFiles == {{}, {"gti"}}

Init ==
    /\ pc = "loop"
    /\ recursive \in BOOLEAN
    /\ stdlib \in StdLibs
    /\ PATH \in MainPaths
    /\ dirs_present = Directories
    /\ files \in MainFiles
    /\ \E in \in HistoryInputs : main_cmd = Command(in[1], in[2])
    /\ attempts = 0
    /\ rules = <<>>
    /\ corrections = <<>>
    /\ fired = NoRule
    /\ cache = NewCommandCache
    /\ result = 0
    /\ ret = <<>>
    /\ fs_changes = 0

\* while (attempts < max_attempts) { RuleManager manager;
Construct ==
    /\ pc = "loop"
    /\ attempts < max_attempts(recursive)
    /\ rules' = RuleManager(stdlib)
    /\ pc' = "manager"
    /\ UNCHANGED <<recursive, stdlib, PATH, dirs_present, files, main_cmd, attempts,
                   corrections, fired, cache, result, ret, fs_changes>>

\* the loop condition fails: return 0
LoopExit ==
    /\ pc = "loop"
    /\ ~(attempts < max_attempts(recursive))
    /\ pc' = "done"
    /\ UNCHANGED <<recursive, stdlib, PATH, dirs_present, files, main_cmd, attempts,
                   rules, corrections, fired, cache, result, ret, fs_changes>>

\* auto corrections = manager.get_corrected_commands(cmd);
\* if (corrections.empty()) break;
Evaluate ==
    /\ pc = "manager"
    /\ LET d == get_corrected_commands(rules, main_cmd, cache, Env)
       IN /\ corrections' = d.corrections
          /\ cache' = d.cache
          /\ fired' = d.fired
          /\ pc' = IF d.corrections = <<>> THEN "done" ELSE "correct"
    /\ UNCHANGED <<recursive, stdlib, PATH, dirs_present, files, main_cmd, attempts,
                   rules, result, ret, fs_changes>>

\* int result = system(correction.c_str());
\* if (result == 0 || !recursive) break;
\* output = execute_command(correction); cmd = Command(correction, output);
\* attempts++;
Execute ==
    /\ pc = "correct"
    /\ \E status \in {0, 1} :
         /\ result' = status
         /\ IF status = 0 \/ ~recursive
            THEN /\ pc' = "done"
                 /\ UNCHANGED <<main_cmd, attempts>>
            ELSE \E output \in RetryOutputs :
                   /\ main_cmd' = Command(corrections[1], output)
                   /\ attempts' = attempts + 1
                   /\ pc' = "loop"
    /\ UNCHANGED <<recursive, stdlib, PATH, dirs_present, files, rules, corrections,
                   fired, cache, ret, fs_changes>>

\* outside the process: a directory named on PATH is removed or created.
\* Only get_corrected_commands reads the file system, so a change at any
\* point of an iteration is the same as one at its head.
FsChange ==
    /\ pc = "loop"
    /\ fs_changes < MaxFsChanges
    /\ PATH # NoEnv
    /\ \E d \in Directories :
         /\ contains(PATH, d)
         /\ dirs_present' = IF d \in dirs_present THEN dirs_present \ {d}
                            ELSE dirs_present \cup {d}
    /\ fs_changes' = fs_changes + 1
    /\ UNCHANGED <<pc, recursive, stdlib, PATH, files, main_cmd, attempts, rules,
                   corrections, fired, cache, result, ret>>

Next == Construct \/ LoopExit \/ Evaluate \/ Execute \/ FsChange

Spec == Init /\ [][Next]_vars

-----------------------------------------------------------------------------
(* Command::Command applied to every short script: the tokenizer alone *)

SplitAlphabet == {"l", "-", " ", "\t", "\n"}

RECURSIVE StringsUpTo(_, _)
StringsUpTo(alphabet, n) ==
    IF n = 0 THEN {""}
    ELSE LET shorter == StringsUpTo(alphabet, n - 1)
         IN shorter \cup {s \o c : s \in shorter, c \in alphabet}

\* the script is held in ret until the Command is constructed from it
InitSplit ==
    /\ pc = "call"
    /\ ret \in StringsUpTo(SplitAlphabet, MaxScriptLen)
    /\ recursive = FALSE
    /\ stdlib = "stable"
    /\ PATH = NoEnv
    /\ dirs_present = Directories
    /\ files = {}
    /\ main_cmd = Command("", "")
    /\ attempts = 0
    /\ rules = <<>>
    /\ corrections = <<>>
    /\ fired = NoRule
    /\ cache = NewCommandCache
    /\ result = 0
    /\ fs_changes = 0

\* Command cmd(last_cmd, output);
ConstructCommand ==
    /\ pc = "call"
    /\ main_cmd' = Command(ret, "")
    /\ pc' = "done"
    /\ UNCHANGED <<recursive, stdlib, PATH, dirs_present, files, attempts, rules,
                   corrections, fired, cache, result, ret, fs_changes>>

NextSplit == ConstructCommand

SpecSplit == InitSplit /\ [][NextSplit]_vars

-----------------------------------------------------------------------------
(* fuzzy::get_system_commands applied to every short PATH and every set of *)
(* existing directories                                                    *)

RECURSIVE PathLists(_)
PathLists(n) ==
    IF n = 0 THEN {<<>>}
    ELSE LET shorter == PathLists(n - 1)
         IN shorter \cup {Append(l, d) : l \in shorter, d \in DirNames}

RECURSIVE JoinPath(_)
JoinPath(l) ==
    IF l = <<>> THEN ""
    ELSE IF Len(l) = 1 THEN l[1]
    ELSE l[1] \o ":" \o JoinPath(Tail(l))

PathValues == {NoEnv} \cup {JoinPath(l) : l \in PathLists(MaxPathDirs)}

InitIndex ==
    /\ pc = "call"
    /\ PATH \in PathValues
    /\ dirs_present \in SUBSET Directories
    /\ recursive = FALSE
    /\ stdlib = "stable"
    /\ files = {}
    /\ main_cmd = Command("", "")
    /\ attempts = 0
    /\ rules = <<>>
    /\ corrections = <<>>
    /\ fired = NoRule
    /\ cache = NewCommandCache
    /\ result = 0
    /\ ret = <<>>
    /\ fs_changes = 0

\* commands = get_system_commands();
BuildIndex ==
    /\ pc = "call"
    /\ ret' = get_system_commands(PATH, dirs_present)
    /\ pc' = "done"
    /\ UNCHANGED <<recursive, stdlib, PATH, dirs_present, files, main_cmd, attempts,
                   rules, corrections, fired, cache, result, fs_changes>>

NextIndex == BuildIndex

SpecIndex == InitIndex /\ [][NextIndex]_vars

-----------------------------------------------------------------------------
(* FuzzyCommandRule applied to Commands over several indexes: match, then   *)
(* get_new_command, on a process whose cache is still empty                *)

FuzzyScripts == {"", "sl", "sl -a", "ligh", "gti status", "lighte  x y", "gitk"}

FuzzyOutputs == {"bash: command not found", "Permission denied"}

FuzzyPaths == {NoEnv, "/u:/b", "/b:/u", "/m", "/m:/u", "/u", "/l:/b", "/b"}

InitFuzzy ==
    /\ pc = "call"
    /\ stdlib \in StdLibs
    /\ PATH \in FuzzyPaths
    /\ dirs_present = Directories
    /\ \E s \in FuzzyScripts, o \in FuzzyOutputs : main_cmd = Command(s, o)
    /\ recursive = FALSE
    /\ files = {}
    /\ attempts = 0
    /\ rules = <<>>
    /\ corrections = <<>>
    /\ fired = NoRule
    /\ cache = NewCommandCache
    /\ result = 0
    /\ ret = FALSE
    /\ fs_changes = 0

\* rule->match(cmd)
FuzzyMatch ==
    /\ pc = "call"
    /\ LET m == FuzzyCommandRule_match(main_cmd, cache, Env)
       IN /\ ret' = m.val
          /\ cache' = m.cache
    /\ pc' = "matched"
    /\ UNCHANGED <<recursive, stdlib, PATH, dirs_present, files, main_cmd, attempts,
                   rules, corrections, fired, result, fs_changes>>

\* rule->get_new_command(cmd)
FuzzySuggest ==
    /\ pc = "matched"
    /\ LET n == FuzzyCommandRule_get_new_command(main_cmd, cache, Env)
       IN /\ corrections' = n.val
          /\ cache' = n.cache
    /\ pc' = "done"
    /\ UNCHANGED <<recursive, stdlib, PATH, dirs_present, files, main_cmd, attempts,
                   rules, fired, result, ret, fs_changes>>

NextFuzzy == FuzzyMatch \/ FuzzySuggest

SpecFuzzy == InitFuzzy /\ [][NextFuzzy]_vars

-----------------------------------------------------------------------------
(* Every rule of the catalogue applied to every Command of HistoryInputs   *)

RulePaths == {"/u:/b"}

InitRules ==
    /\ pc = "call"
    /\ stdlib \in StdLibs
    /\ PATH \in RulePaths
    /\ dirs_present = Directories
    /\ files \in MainFiles
    /\ \E in \in HistoryInputs : main_cmd = Command(in[1], in[2])
    /\ recursive = FALSE
    /\ attempts = 0
    /\ rules = <<>>
    /\ corrections = <<>>
    /\ fired = NoRule
    /\ cache = NewCommandCache
    /\ result = 0
    /\ ret = FALSE
    /\ fs_changes = 0

\* if (rule->match(cmd)) return rule->get_new_command(cmd);  for one rule
ApplyRule ==
    /\ pc = "call"
    /\ \E k \in 1..Len(Registration) :
         LET m == rule_match(Registration[k], main_cmd, cache, Env)
             n == rule_get_new_command(Registration[k], main_cmd, m.cache, Env)
         IN /\ fired' = Registration[k]
            /\ ret' = m.val
            /\ corrections' = IF m.val THEN n.val ELSE <<>>
            /\ cache' = IF m.val THEN n.cache ELSE m.cache
    /\ pc' = "done"
    /\ UNCHANGED <<recursive, stdlib, PATH, dirs_present, files, main_cmd, attempts,
                   rules, result, fs_changes>>

NextRules == ApplyRule

SpecRules == InitRules /\ [][NextRules]_vars

-----------------------------------------------------------------------------
(* Properties *)

\* get_corrected_commands has returned for main_cmd and nothing it read has
\* changed since: main is about to run the correction, or has left the loop
\* through a break
Evaluated == pc = "correct" \/ (pc = "done" /\ attempts < max_attempts(recursive))

\* the positions of the registry whose rule matches main_cmd
MatchingRules ==
    {i \in 1..Len(rules) : rule_match(rules[i], main_cmd, cache, Env).val}

\* C1: get_corrected_commands returns exactly the candidate list of the
\* first rule of the registry, in its stored order, whose match is true, and
\* nothing of any other rule; when no rule matches it returns the empty list.
C1_FirstMatchOnly ==
    Evaluated =>
        IF MatchingRules = {}
        THEN corrections = <<>> /\ fired = NoRule
        ELSE LET first == rules[SetMin(MatchingRules)]
             IN /\ fired = first
                /\ corrections = rule_get_new_command(first, main_cmd, cache, Env).val

\* two rules match the Command and the later one would give another list
C1_TwoRulesMatch ==
    /\ pc = "correct"
    /\ \E i \in MatchingRules :
         /\ i > SetMin(MatchingRules)
         /\ rule_get_new_command(rules[i], main_cmd, cache, Env).val # corrections

\* the position of a rule among the push_backs of the constructor
RegistrationIndex(rule) == CHOOSE k \in 1..Len(Registration) : Registration[k] = rule

\* C2: after construction the registry is ascending by (priority,
\* registration index), so rules of equal priority keep their registration
\* order, and of the rules matching a Command the one registered first fires.
C2_RegistryKeepsRegistrationOrder ==
    /\ \A i, j \in 1..Len(rules) :
         i < j =>
           \/ get_priority(rules[i]) < get_priority(rules[j])
           \/ /\ get_priority(rules[i]) = get_priority(rules[j])
              /\ RegistrationIndex(rules[i]) < RegistrationIndex(rules[j])
    /\ (pc = "correct") =>
         fired = Registration[SetMin({RegistrationIndex(rules[i]) : i \in MatchingRules})]

Whitespace == {" ", "\t", "\n"}

\* the fragments of str between whitespace characters, empty ones dropped
RECURSIVE WhitespaceSplitFrom(_, _, _, _)
WhitespaceSplitFrom(str, i, part, parts) ==
    LET pushed == IF part # "" THEN Append(parts, part) ELSE parts
    IN IF i > Len(str) THEN pushed
       ELSE IF SubSeq(str, i, i) \in Whitespace
            THEN WhitespaceSplitFrom(str, i + 1, "", pushed)
            ELSE WhitespaceSplitFrom(str, i + 1, part \o SubSeq(str, i, i), parts)

\* C3: for every script, tabs, newlines and runs of separators included,
\* script_parts is the whitespace-split of script, empty fragments removed
\* and order kept.
C3_TokensAreWhitespaceSplit ==
    pc = "done" =>
        main_cmd.script_parts = WhitespaceSplitFrom(main_cmd.script, 1, "", <<>>)

\* C4: when the first token is a key of the typo map and the output contains
\* "command not found", then whatever the index holds the first candidate of
\* the Dispatcher is the mapped name followed by the remaining tokens.
C4_TypoMapGivesFirstCandidate ==
    ( /\ Evaluated
      /\ main_cmd.script_parts # <<>>
      /\ main_cmd.script_parts[1] \in DOMAIN NoCommandTypos
      /\ contains(main_cmd.output, "command not found") )
    => /\ corrections # <<>>
       /\ corrections[1] =
            append_parts(NoCommandTypos[main_cmd.script_parts[1]],
                         main_cmd.script_parts, 2)

\* what a scan of PATH finds now
Index == get_system_commands(PATH, dirs_present)

\* the index holds a name within distance d of token
IndexHasWithin(token, d) ==
    \E k \in 1..Len(Index) : levenshtein_distance(token, Index[k]) <= d

\* C5 as stated: the fuzzy rule matches exactly when the output contains
\* "command not found" and the index holds a name within distance 3 of the
\* first token.
C5_MatchesWithinDistance3 ==
    pc \in {"matched", "done"} =>
        ret = ( /\ contains(main_cmd.output, "command not found")
                /\ main_cmd.script_parts # <<>>
                /\ IndexHasWithin(main_cmd.script_parts[1], SuggestionDistance) )

\* C5 amended: the fuzzy rule matches exactly when the output contains
\* "command not found", the script has a token and the index holds a name
\* within distance 2 of the first token; a nearest name at distance exactly 3
\* is not matched.
C5_MatchesWithinDistance2 ==
    pc \in {"matched", "done"} =>
        ret = ( /\ contains(main_cmd.output, "command not found")
                /\ main_cmd.script_parts # <<>>
                /\ IndexHasWithin(main_cmd.script_parts[1], DefaultMaxDistance) )

\* match has answered FALSE for a command not found whose nearest indexed
\* name is at distance exactly 3
C5_NearestAtDistance3 ==
    /\ pc = "matched"
    /\ ret = FALSE
    /\ contains(main_cmd.output, "command not found")
    /\ main_cmd.script_parts # <<>>
    /\ IndexHasWithin(main_cmd.script_parts[1], SuggestionDistance)
    /\ ~IndexHasWithin(main_cmd.script_parts[1], DefaultMaxDistance)

\* C6: the candidate list of the fuzzy rule has at most 3 entries, only of
\* names within distance 3, in ascending distance, names at equal distance in
\* the enumeration order of the index; each is the name followed by the
\* remaining tokens joined by single spaces.
C6_CandidatesRankedStably ==
    pc = "done" =>
        IF main_cmd.script_parts = <<>> THEN corrections = <<>>
        ELSE LET token == main_cmd.script_parts[1]
                 Dist(k) == levenshtein_distance(token, Index[k])
                 Near == {k \in 1..Len(Index) : Dist(k) <= SuggestionDistance}
                 Before(q, k) == Dist(q) < Dist(k) \/ (Dist(q) = Dist(k) /\ q < k)
                 Rank(k) == Cardinality({q \in Near : Before(q, k)})
                 Ranked(n) == CHOOSE k \in Near : Rank(k) = n - 1
             IN corrections =
                  [n \in 1..Min2(MaxSuggestions, Cardinality(Near)) |->
                      append_parts(Index[Ranked(n)], main_cmd.script_parts, 2)]

\* C7: get_system_commands is called at most once in the process, and once
\* the cache is built every later lookup, of any RuleManager, sees the list
\* of that first build, whatever it held and whatever changed since.
C7_IndexBuiltAtMostOnce ==
    [][ /\ cache'.builds <= 1
        /\ cache.initialized =>
             /\ cache'.initialized
             /\ cache'.cached_commands = cache.cached_commands ]_vars

\* a later iteration's fuzzy lookup was answered from the cache although a
\* scan would now find another list
C7_LaterLookupSeesFirstBuild ==
    /\ pc = "correct"
    /\ attempts >= 1
    /\ fired = "FuzzyCommandRule"
    /\ cache.builds = 1
    /\ cache.cached_commands # Index

\* the directories of PATH in path-list order
Listed == IF PATH = NoEnv THEN <<>> ELSE getlines_from(PATH, ":", 0, <<>>)

Readable(path) == is_directory(path, dirs_present) /\ CanOpenDir(path)

Qualifies(entry) ==
    /\ CharAt(entry.d_name, 0) # "."
    /\ entry.d_type \in {"DT_REG", "DT_LNK", "DT_UNKNOWN"}
    /\ entry.stat_ok
    /\ entry.xusr

\* the names of the qualifying entries of one directory, in enumeration order
QualifyingNames(entries) ==
    LET qualifying == SelectSeq(entries, Qualifies)
    IN [k \in 1..Len(qualifying) |-> qualifying[k].d_name]

\* the same over the readable directories of a path list, in list order
RECURSIVE Offered(_, _)
Offered(listed, d) ==
    IF d > Len(listed) THEN <<>>
    ELSE (IF Readable(listed[d]) THEN QualifyingNames(ReadDir(listed[d])) ELSE <<>>)
         \o Offered(listed, d + 1)

\* C8: the index holds each name at most once; it holds a name iff some
\* readable listed directory has an entry of that name that does not start
\* with '.', is regular, symlink or unknown and is owner-executable; names
\* are in the order of their first occurrence, directories taken in
\* path-list order; other path entries contribute nothing.
C8_IndexIsFirstOccurrences ==
    pc = "done" =>
        LET offered == Offered(Listed, 1)
            First(name) == SetMin({k \in 1..Len(offered) : offered[k] = name})
        IN /\ \A i, j \in 1..Len(ret) : i # j => ret[i] # ret[j]
           /\ {ret[i] : i \in 1..Len(ret)} = {offered[k] : k \in 1..Len(offered)}
           /\ \A i, j \in 1..Len(ret) : i < j => First(ret[i]) < First(ret[j])

\* the scan met a name a second time and skipped a listed path
C8_DuplicateAndSkipped ==
    /\ pc = "done"
    /\ LET offered == Offered(Listed, 1)
       IN \E k, q \in 1..Len(offered) : k # q /\ offered[k] = offered[q]
    /\ \E d \in 1..Len(Listed) : ~Readable(Listed[d])
    /\ ret # <<>>

\* C9: SudoRule matches every Command whose output contains "permission
\* denied" in any letter case, or "EACCES", or "unless you are root", and its
\* only candidate is "sudo " followed by the script.
C9_SudoRuleMatchesElevation ==
    ( /\ pc = "done"
      /\ fired = "SudoRule"
      /\ \/ contains(to_lower(main_cmd.output), "permission denied")
         \/ contains(main_cmd.output, "EACCES")
         \/ contains(main_cmd.output, "unless you are root") )
    => /\ ret = TRUE
       /\ corrections = <<"sudo " \o main_cmd.script>>

\* script with its single-dash flag written with two dashes
DoubleDashed(script) ==
    IF contains(script, " -amend")
    THEN Replace(script, Find(script, " -amend"), Len(" -amend"), " --amend")
    ELSE IF contains(script, " -continue")
    THEN Replace(script, Find(script, " -continue"), Len(" -continue"), " --continue")
    ELSE Replace(script, Find(script, " -abort"), Len(" -abort"), " --abort")

\* C10: for a script that starts with "git " and contains " -amend",
\* " -continue" or " -abort", with an output that triggers no elevation and
\* no command-not-found rule, the Dispatcher's candidate is the script with
\* that flag in its double-dash form and nothing else changed.
C10_GitFlagRewritten ==
    ( /\ Evaluated
      /\ starts_with(main_cmd.script, "git ")
      /\ \/ contains(main_cmd.script, " -amend")
         \/ contains(main_cmd.script, " -continue")
         \/ contains(main_cmd.script, " -abort")
      /\ ~SudoRule_match(main_cmd)
      /\ ~NoCommandRule_match(main_cmd) )
    => corrections = <<DoubleDashed(main_cmd.script)>>

-----------------------------------------------------------------------------
(* One evaluation of the Dispatcher: a RuleManager is constructed and       *)
(* get_corrected_commands is called once, on Commands chosen to exercise    *)
(* particular rules                                                        *)

\* "ls" with each kind of output
LsInputs ==
    { <<"ls", "">>,
      <<"ls", "readme.md\n">>,
      <<"ls", "ls: cannot open directory '.': Permission denied">>,
      <<"ls", "bash: ls: command not found">>,
      <<"ls -l", "">>,
      <<"ls -l", "total 0">>,
      <<"ls", "a.txt  b.txt\n">> }

DispatchInputs == LsInputs

DispatchPaths == {NoEnv, "/u:/b"}

InitDispatch ==
    /\ pc = "loop"
    /\ recursive = FALSE
    /\ stdlib \in StdLibs
    /\ PATH \in DispatchPaths
    /\ dirs_present = Directories
    /\ files \in MainFiles
    /\ \E in \in DispatchInputs : main_cmd = Command(in[1], in[2])
    /\ attempts = 0
    /\ rules = <<>>
    /\ corrections = <<>>
    /\ fired = NoRule
    /\ cache = NewCommandCache
    /\ result = 0
    /\ ret = <<>>
    /\ fs_changes = 0

NextDispatch == Construct \/ Evaluate

SpecDispatch == InitDispatch /\ [][NextDispatch]_vars

\* C11: for the script "ls" the Dispatcher returns <<"ls -A">> when the
\* output is empty and <<"ls -lah">> when it is not, and LsAllRule and
\* LsLahRule never both match one Command.
C11_LsRewrittenByOutput ==
    /\ ~(LsAllRule_match(main_cmd) /\ LsLahRule_match(main_cmd))
    /\ (Evaluated /\ main_cmd.script = "ls") =>
          corrections = IF main_cmd.output = "" THEN <<"ls -A">> ELSE <<"ls -lah">>

-----------------------------------------------------------------------------
(* The Dispatcher on  cd X  failing with "No such file or directory", for   *)
(* every short X without a space                                           *)

CdAlphabet == {"c", "d", "/", "."}

CdTargets == StringsUpTo(CdAlphabet, MaxScriptLen) \ {""}

InitCd ==
    /\ pc = "loop"
    /\ recursive = FALSE
    /\ stdlib \in StdLibs
    /\ PATH \in DispatchPaths
    /\ dirs_present = Directories
    /\ files = {}
    /\ \E X \in CdTargets :
         main_cmd = Command("cd " \o X, "cd: " \o X \o ": No such file or directory")
    /\ attempts = 0
    /\ rules = <<>>
    /\ corrections = <<>>
    /\ fired = NoRule
    /\ cache = NewCommandCache
    /\ result = 0
    /\ ret = <<>>
    /\ fs_changes = 0

SpecCd == InitCd /\ [][NextDispatch]_vars

\* C12: for  cd X  with output  cd: X: No such file or directory  the first
\* candidate the Dispatcher returns is  mkdir -p X && cd X.
C12_CdGetsMkdir ==
    Evaluated =>
        /\ corrections # <<>>
        /\ LET X == main_cmd.script_parts[2]
           IN corrections[1] = "mkdir -p " \o X \o " && cd " \o X

-----------------------------------------------------------------------------
(* Every rule applied to git Commands whose output does or does not carry   *)
(* the text the rule's regular expression captures                         *)

GitCaptureInputs ==
    { <<"git push", "fatal: The current branch main has no upstream branch.\n    git push --set-upstream origin main\n">>,
      <<"git push", "fatal: The current branch has no upstream branch">>,
      <<"git push -u", "has no upstream branch: git push --set-upstream origin ">>,
      <<"git comit -m x", "git: 'comit' is not a git command.\n\nThe most similar command is\n\tcommit\n">>,
      <<"git comit -m x", "git: 'comit' is not a git command. See 'git --help'.">>,
      <<"git sttus", "git: 'sttus' is not a git command. The most similar command is STATUS">> }

InitCapture ==
    /\ pc = "call"
    /\ stdlib \in StdLibs
    /\ PATH \in RulePaths
    /\ dirs_present = Directories
    /\ files \in MainFiles
    /\ \E in \in GitCaptureInputs : main_cmd = Command(in[1], in[2])
    /\ recursive = FALSE
    /\ attempts = 0
    /\ rules = <<>>
    /\ corrections = <<>>
    /\ fired = NoRule
    /\ cache = NewCommandCache
    /\ result = 0
    /\ ret = FALSE
    /\ fs_changes = 0

SpecCapture == InitCapture /\ [][NextRules]_vars

\* std::regex_search of the rule's pattern finds nothing in the output
CaptureFails(rule, cmd) ==
    CASE rule = "GitPushRule" ->
           regex_capture_from(cmd.output, 0, "git push --set-upstream origin ",
                              FALSE, BranchChars) = ""
      [] rule = "GitNotCommandRule" ->
           regex_capture_from(cmd.output, 0, "The most similar command is",
                              TRUE, LowerLetters) = ""
      [] OTHER -> FALSE

\* a Command of each rule, other than those of GitCaptureInputs, on which
\* the rule matches and its capture fails
CaptureReference(rule) ==
    IF rule = "GitPushRule"
    THEN Command("git push origin", "error: branch has no upstream branch")
    ELSE Command("git stauts", "git: 'stauts' is not a git command.")

\* C13: when GitPushRule or GitNotCommandRule matches and its capture
\* fails, the list it returns is one fixed default, the same for every
\* Command: the one it returns for the reference Command.
C13_FailedCaptureGivesFixedDefault ==
    (pc = "done" /\ ret /\ CaptureFails(fired, main_cmd)) =>
        corrections = rule_get_new_command(fired, CaptureReference(fired),
                                           cache, Env).val

-----------------------------------------------------------------------------
(* Token, character and substr positions read by the rules                 *)

\* the reads of one call, in the order the code performs them: pos is the
\* 0-based position that is read, size the size of what it is read from
TokenRead(parts, i) == [kind |-> "token", pos |-> i, size |-> Len(parts)]

CharRead(s, i) == [kind |-> "char", pos |-> i, size |-> Len(s)]

SubstrRead(s, p) == [kind |-> "substr", pos |-> p, size |-> Len(s)]

\* the reads of a loop  for (i = from; i < parts.size(); i++) ... parts[i]
LoopReads(parts, from) ==
    [i \in 1..(IF Len(parts) > from THEN Len(parts) - from ELSE 0) |->
        TokenRead(parts, from + i - 1)]

\* the position exists: vector::operator[] and back() need pos < size();
\* operator[] of a const std::string also accepts pos = size(), where it
\* yields the terminating NUL; substr, replace need pos <= size()
InRange(read) ==
    /\ read.pos >= 0
    /\ IF read.kind = "token" THEN read.pos < read.size ELSE read.pos <= read.size

AllInRange(reads) == \A i \in 1..Len(reads) : InRange(reads[i])

\* starts_with(cmd.script, "java ") && ends_with(cmd.script_parts.back(), ..)
\* without the first test
JavaRule_match_reads_unguarded(cmd) ==
    <<TokenRead(cmd.script_parts, Len(cmd.script_parts) - 1)>>

JavaRule_match_reads(cmd) ==
    IF starts_with(cmd.script, "java ")
    THEN <<TokenRead(cmd.script_parts, Len(cmd.script_parts) - 1)>>
    ELSE <<>>

ChmodXRule_match_reads(cmd) ==
    IF contains(cmd.output, "Permission denied") /\ Len(cmd.script_parts) >= 1
    THEN <<TokenRead(cmd.script_parts, 0), CharRead(cmd.script_parts[1], 0)>>
         \o (IF CharAt(cmd.script_parts[1], 0) = "."
             THEN <<TokenRead(cmd.script_parts, 0), CharRead(cmd.script_parts[1], 1)>>
             ELSE <<>>)
    ELSE <<>>

DryRule_match_reads(cmd) ==
    IF Len(cmd.script_parts) < 2
    THEN <<>>
    ELSE <<TokenRead(cmd.script_parts, 0), TokenRead(cmd.script_parts, 1)>>

\* rule->match(cmd): the token and character positions it reads
match_reads(rule, cmd) ==
    CASE rule = "ChmodXRule" -> ChmodXRule_match_reads(cmd)
      [] rule = "DryRule" -> DryRule_match_reads(cmd)
      [] rule = "JavaRule" -> JavaRule_match_reads(cmd)
      [] rule = "PythonCommandRule" ->
            IF contains(cmd.output, "Permission denied") /\ cmd.script_parts # <<>>
            THEN <<TokenRead(cmd.script_parts, 0)>> ELSE <<>>
      [] rule \in {"HasExistsScriptRule", "FuzzyCommandRule"} ->
            IF contains(cmd.output, "command not found") /\ cmd.script_parts # <<>>
            THEN <<TokenRead(cmd.script_parts, 0)>> ELSE <<>>
      [] rule = "WrongHyphenBeforeSubcommandRule" ->
            IF contains(cmd.output, "command not found") /\ Len(cmd.script_parts) > 0
            THEN <<TokenRead(cmd.script_parts, 0)>> ELSE <<>>
      [] OTHER -> <<>>

\* the reads of  if (cmd.script_parts.size() > 1 && typos.count(parts[1]))
\*                   return {tool + typos[parts[1]]};
TypoMapReads(cmd, typos) ==
    IF Len(cmd.script_parts) > 1
    THEN <<TokenRead(cmd.script_parts, 1)>>
         \o (IF cmd.script_parts[2] \in DOMAIN typos
             THEN <<TokenRead(cmd.script_parts, 1)>> ELSE <<>>)
    ELSE <<>>

\* rule->get_new_command(cmd): the token positions it reads and the
\* positions of its substr, replace and operator[] calls on the script
get_new_command_reads(rule, cmd, c, env) ==
    CASE rule = "NoCommandRule" ->
            IF cmd.script_parts # <<>>
            THEN <<TokenRead(cmd.script_parts, 0)>>
                 \o (IF cmd.script_parts[1] \in DOMAIN NoCommandTypos
                     THEN <<TokenRead(cmd.script_parts, 0)>>
                          \o LoopReads(cmd.script_parts, 1)
                     ELSE <<>>)
            ELSE <<>>
      [] rule = "GitNotCommandRule" ->
            IF regex_capture_from(cmd.output, 0, "The most similar command is",
                                  TRUE, LowerLetters) # ""
            THEN LoopReads(cmd.script_parts, 2) ELSE <<>>
      [] rule = "CdMkdirRule" ->
            IF Len(cmd.script_parts) >= 2
            THEN <<TokenRead(cmd.script_parts, 1), TokenRead(cmd.script_parts, 1)>>
            ELSE <<>>
      [] rule = "CdCsRule" -> <<SubstrRead(cmd.script, 3)>>
      [] rule = "CatDirRule" -> <<SubstrRead(cmd.script, 4)>>
      [] rule = "ChmodXRule" -> <<TokenRead(cmd.script_parts, 0)>>
      [] rule = "CpOmittingDirectoryRule" -> <<SubstrRead(cmd.script, 3)>>
      [] rule = "DryRule" ->
            <<TokenRead(cmd.script_parts, 0)>> \o LoopReads(cmd.script_parts, 2)
      [] rule = "GitBranchDeleteRule" ->
            <<SubstrRead(cmd.script, 0),
              SubstrRead(cmd.script, Find(cmd.script, "-d") + 2)>>
      [] rule = "GitCommitAddRule" ->
            <<SubstrRead(cmd.script, 0)>>
            \o (IF Len(cmd.script) > 10 THEN <<SubstrRead(cmd.script, 10)>> ELSE <<>>)
      [] rule = "GitTwoDashesRule" ->
            LET fixed == cmd.script
            IN CASE Find(fixed, " -amend") # NPOS ->
                       <<SubstrRead(fixed, Find(fixed, " -amend"))>>
                 [] Find(fixed, " -continue") # NPOS ->
                       <<SubstrRead(fixed, Find(fixed, " -continue"))>>
                 [] Find(fixed, " -abort") # NPOS ->
                       <<SubstrRead(fixed, Find(fixed, " -abort"))>>
                 [] OTHER -> <<>>
      [] rule = "GrepRecursiveRule" -> <<SubstrRead(cmd.script, 5)>>
      [] rule = "MkdirPRule" -> <<SubstrRead(cmd.script, 6)>>
      [] rule = "RmDirRule" -> <<SubstrRead(cmd.script, 3)>>
      [] rule = "SlLsRule" -> <<SubstrRead(cmd.script, 2)>>
      [] rule = "JavaRule" -> <<SubstrRead(cmd.script, 0)>>
      [] rule = "DockerNotCommandRule" -> TypoMapReads(cmd, DockerCommon)
      [] rule = "NpmWrongCommandRule" -> TypoMapReads(cmd, NpmTypos)
      [] rule = "PipUnknownCommandRule" -> TypoMapReads(cmd, PipTypos)
      [] rule = "GitCloneGitCloneRule" -> <<SubstrRead(cmd.script, 10)>>
      [] rule = "WrongHyphenBeforeSubcommandRule" ->
            IF Find(cmd.script, "-") # NPOS
            THEN <<CharRead(cmd.script, Find(cmd.script, "-"))>> ELSE <<>>
      [] rule = "MissingSpaceBeforeSubcommandRule" ->
            CASE starts_with(cmd.script, "npminstall") -> <<SubstrRead(cmd.script, 10)>>
              [] starts_with(cmd.script, "gitcommit") -> <<SubstrRead(cmd.script, 9)>>
              [] starts_with(cmd.script, "aptinstall") -> <<SubstrRead(cmd.script, 10)>>
              [] OTHER -> <<>>
      [] rule = "RemoveShellPromptLiteralRule" -> <<SubstrRead(cmd.script, 2)>>
      [] rule = "TouchRule" ->
            <<SubstrRead(cmd.script, 6)>>
            \o (IF RFind(Substr(cmd.script, 6), "/") # NPOS
                THEN <<SubstrRead(Substr(cmd.script, 6), 0)>> ELSE <<>>)
      [] rule = "UnsudoRule" -> <<SubstrRead(cmd.script, 5)>>
      [] rule = "LnSOrderRule" ->
            IF Len(cmd.script_parts) >= 4
            THEN <<TokenRead(cmd.script_parts, 3), TokenRead(cmd.script_parts, 2)>>
            ELSE <<>>
      [] rule = "GitMainMasterRule" ->
            IF contains(cmd.script, "master")
            THEN <<SubstrRead(cmd.script, Find(cmd.script, "master"))>>
            ELSE <<SubstrRead(cmd.script, Find(cmd.script, "main"))>>
      [] rule = "FuzzyCommandRule" ->
            IF cmd.script_parts = <<>>
            THEN <<>>
            ELSE <<TokenRead(cmd.script_parts, 0)>>
                 \o (IF find_similar_commands(cmd.script_parts[1], SuggestionDistance,
                                              c, env).matches # <<>>
                     THEN LoopReads(cmd.script_parts, 1) ELSE <<>>)
      [] OTHER -> <<>>

\* an output in which every output test of the catalogue succeeds
EveryOutput ==
    "bash: x: command not found; Permission denied; No such file or directory; "
    \o "Is a directory; omitting directory; not fully merged; "
    \o "no changes added to commit; is not a git command; has no upstream branch; "
    \o "Unknown command; unknown command; is not a docker command; "
    \o "must not be run as root; did you mean 'main'; did you mean 'master'; "
    \o "did not match any file; C++11; The most similar command is\n\tcommit"

AccessScripts ==
    { "", " ", "  ", ".", "/", "./", " . ", "a", "-", "a-", "x x", "x x y",
      "sl", "sl ", "cd ", "cd a", "cs ", "cat ", "cp ", "rm ", "grep ", "mkdir ",
      "touch ", "touch /", "sudo ", "$ ", "ln -s", "ln -s a b", "java ",
      "java .java", "java a.java ", "git", "git x y", "git commit",
      "git branch -d", "-d git branch -d", "git clone git clone", "git -abort",
      "git push", "npm ", "npm instal", "pip ", "docker ", "docker tag",
      "npminstall", "gitcommit", "aptinstall", "master", "main", "a.py", "gti" }

AccessOutputs == {"", EveryOutput}

InitAccess ==
    /\ pc = "call"
    /\ stdlib \in StdLibs
    /\ PATH \in RulePaths
    /\ dirs_present = Directories
    /\ files \in MainFiles
    /\ \E s \in AccessScripts, o \in AccessOutputs : main_cmd = Command(s, o)
    /\ recursive = FALSE
    /\ attempts = 0
    /\ rules = <<>>
    /\ corrections = <<>>
    /\ fired = NoRule
    /\ cache = NewCommandCache
    /\ result = 0
    /\ ret = FALSE
    /\ fs_changes = 0

SpecAccess == InitAccess /\ [][NextRules]_vars

\* C14: for every Command, the ones with no token, with a one-character first
\* token and with an empty output included, the match of every rule reads no
\* token or character position that does not exist, and when it returns true
\* the rule's get_new_command reads no token out of range and calls no substr
\* out of range.
C14_RulesReadInRange ==
    pc = "done" =>
        /\ ret \in BOOLEAN
        /\ AllInRange(match_reads(fired, main_cmd))
        /\ ret => AllInRange(get_new_command_reads(fired, main_cmd, cache, Env))

\* a rule whose match succeeded on a one-token Command read a position
C14_Witness ==
    /\ pc = "done"
    /\ ret
    /\ Len(main_cmd.script_parts) = 1
    /\ Len(main_cmd.script_parts[1]) <= 2
    /\ fired = "ChmodXRule"
    /\ Len(match_reads(fired, main_cmd)) = 4
    /\ get_new_command_reads(fired, main_cmd, cache, Env) # <<>>

-----------------------------------------------------------------------------
(* main under the scheduler: a process that has not returned goes on to    *)
(* its next statement; the file system outside changes or not              *)

\* the process moves from one statement of main to another
ProcessStep == pc # "done" /\ pc' \in {"loop", "manager", "correct", "done"}

LiveSpec == Init /\ [][Next]_vars /\ WF_pc(ProcessStep)

\* the calls of get_corrected_commands main has made so far: one for each
\* finished iteration and one for the iteration that is past its call
Evaluations == attempts + (IF Evaluated THEN 1 ELSE 0)

\* C15: the retry loop always terminates; the Dispatcher is evaluated at
\* most 10 times in recursive mode and exactly once otherwise; the loop is
\* left at once, with no further evaluation, when the executed correction
\* exits with status 0 or the Dispatcher returns an empty list; and every
\* further iteration evaluates a Command newly constructed from the previous
\* candidate and an output of running that candidate.
C15_RetryLoopTerminates ==
    /\ <>[](pc = "done")
    /\ [](Evaluations <= (IF recursive THEN 10 ELSE 1))
    /\ []((pc = "done" /\ ~recursive) => Evaluations = 1)
    /\ [][ /\ (pc = "manager") <=> (Evaluations' = Evaluations + 1)
           /\ (pc # "manager") => (Evaluations' = Evaluations)
           /\ (pc = "manager" /\ corrections' = <<>>) => pc' = "done"
           /\ (pc = "correct" /\ result' = 0) => pc' = "done"
           /\ (pc = "done") => (pc' = "done")
           /\ (main_cmd' # main_cmd) =>
                 /\ pc = "correct" /\ pc' = "loop"
                 /\ \E output \in RetryOutputs :
                      main_cmd' = Command(corrections[1], output) ]_vars

\* recursive mode has evaluated the Dispatcher ten times, each time on the
\* Command made of the candidate before, and the loop condition ended it
C15_TenEvaluations ==
    /\ pc = "done"
    /\ recursive
    /\ attempts = MaxAttemptsRecursive
    /\ Evaluations = 10
    /\ main_cmd.script = corrections[1]

-----------------------------------------------------------------------------
(* get_corrected_commands called again on the same Command, in the same    *)
(* process or in a new one, while files and directories come and go        *)

MaxEvaluations == 3

TwiceInputs ==
    { <<"gti status", "gti: command not found">>,
      <<"gti", "bash: gti: command not found">>,
      <<"gitk", "gitk: command not found">>,
      <<"ligh", "ligh: command not found">>,
      <<"ls", "">>,
      <<"cd a", "cd: a: No such file or directory">> }

\* ret holds what the first call returned
InitTwice ==
    /\ pc = "first"
    /\ recursive = FALSE
    /\ stdlib \in StdLibs
    /\ PATH \in MainPaths
    /\ dirs_present = Directories
    /\ files \in MainFiles
    /\ \E in \in TwiceInputs : main_cmd = Command(in[1], in[2])
    /\ attempts = 0
    /\ rules = RuleManager(stdlib)
    /\ corrections = <<>>
    /\ fired = NoRule
    /\ cache = NewCommandCache
    /\ result = 0
    /\ ret = <<>>
    /\ fs_changes = 0

\* manager.get_corrected_commands(cmd), the first call
EvaluateFirst ==
    /\ pc = "first"
    /\ \E d \in {get_corrected_commands(rules, main_cmd, cache, Env)} :
          /\ ret' = d
          /\ corrections' = d.corrections
          /\ cache' = d.cache
          /\ fired' = d.fired
    /\ attempts' = attempts + 1
    /\ pc' = "again"
    /\ UNCHANGED <<recursive, stdlib, PATH, dirs_present, files, main_cmd, rules,
                   result, fs_changes>>

\* manager.get_corrected_commands(cmd), a later call on the same Command
EvaluateAgain ==
    /\ pc \in {"again", "changed"}
    /\ attempts < MaxEvaluations
    /\ \E d \in {get_corrected_commands(rules, main_cmd, cache, Env)} :
          /\ corrections' = d.corrections
          /\ cache' = d.cache
          /\ fired' = d.fired
    /\ attempts' = attempts + 1
    /\ pc' = "again"
    /\ UNCHANGED <<recursive, stdlib, PATH, dirs_present, files, main_cmd, rules,
                   result, ret, fs_changes>>

\* outside the process: a file named like the first token is created or
\* removed in the working directory
FileChange ==
    /\ pc = "again"
    /\ main_cmd.script_parts # <<>>
    /\ files' = IF main_cmd.script_parts[1] \in files
                THEN files \ {main_cmd.script_parts[1]}
                ELSE files \cup {main_cmd.script_parts[1]}
    /\ pc' = "changed"
    /\ UNCHANGED <<recursive, stdlib, PATH, dirs_present, main_cmd, attempts, rules,
                   corrections, fired, cache, result, ret, fs_changes>>

\* outside the process: a directory named on PATH is removed or created
DirChange ==
    /\ pc \in {"again", "changed"}
    /\ fs_changes < MaxFsChanges
    /\ PATH # NoEnv
    /\ \E d \in Directories :
         /\ contains(PATH, d)
         /\ dirs_present' = IF d \in dirs_present THEN dirs_present \ {d}
                            ELSE dirs_present \cup {d}
    /\ fs_changes' = fs_changes + 1
    /\ UNCHANGED <<pc, recursive, stdlib, PATH, files, main_cmd, attempts, rules,
                   corrections, fired, cache, result, ret>>

\* the program is started again: the static cache is new, the registry is
\* built again by the same constructor
Restart ==
    /\ pc \in {"again", "changed"}
    /\ cache # NewCommandCache
    /\ cache' = NewCommandCache
    /\ rules' = RuleManager(stdlib)
    /\ UNCHANGED <<pc, recursive, stdlib, PATH, dirs_present, files, main_cmd, attempts,
                   corrections, fired, result, ret, fs_changes>>

NextTwice == EvaluateFirst \/ EvaluateAgain \/ FileChange \/ DirChange \/ Restart

SpecTwice == InitTwice /\ [][NextTwice]_vars

\* C16: with the same registry and the same content of the command index, an
\* evaluation of get_corrected_commands on a Command returns the list an
\* earlier evaluation on that Command returned, whether or not a file named
\* like the first token exists, and however many evaluations came before.
C16_SameCommandSameList ==
    (pc \in {"again", "changed"} /\ cache.cached_commands = ret.cache.cached_commands)
        => corrections = ret.corrections

\* a later evaluation of a "command not found" Command, after a file named
\* like its first token appeared, returned a non-empty list
C16_Witness ==
    /\ pc = "again"
    /\ attempts >= 2
    /\ main_cmd.script = "gitk"
    /\ "gitk" \in files
    /\ contains(main_cmd.output, "command not found")
    /\ cache.cached_commands = ret.cache.cached_commands
    /\ corrections # <<>>
    /\ corrections = ret.corrections

-----------------------------------------------------------------------------
(* fuzzy::levenshtein_distance applied to every pair of short strings      *)

MaxWordLen == 4

WordAlphabet == {"g", "t"}

Words == StringsUpTo(WordAlphabet, MaxWordLen)

\* the strings one insertion, deletion or substitution away from s, no
\* longer than MaxWordLen: a shortest sequence of edits between two words
\* never needs a longer string than the longer of the two
OneEdit(s) ==
    {SubSeq(s, 1, p) \o SubSeq(s, p + 2, Len(s)) : p \in 0..(Len(s) - 1)}
    \cup {SubSeq(s, 1, p) \o c \o SubSeq(s, p + 2, Len(s)) :
             p \in 0..(Len(s) - 1), c \in WordAlphabet}
    \cup (IF Len(s) < MaxWordLen
          THEN {SubSeq(s, 1, p) \o c \o SubSeq(s, p + 1, Len(s)) :
                   p \in 0..Len(s), c \in WordAlphabet}
          ELSE {})

\* the strings at most k edits away from the strings of S
RECURSIVE WithinEdits(_, _)
WithinEdits(S, k) ==
    IF k = 0 THEN S
    ELSE WithinEdits(S \cup UNION {OneEdit(s) : s \in S}, k - 1)

\* the least number of single-character edits that turn a into b
MinEdits(a, b) ==
    SetMin({k \in 0..MaxWordLen : b \in WithinEdits({a}, k)})

\* the two words are held in ret until the function is called
InitLevenshtein ==
    /\ pc = "call"
    /\ ret \in Words \X Words
    /\ recursive = FALSE
    /\ stdlib = "stable"
    /\ PATH = NoEnv
    /\ dirs_present = Directories
    /\ files = {}
    /\ main_cmd = Command("", "")
    /\ attempts = 0
    /\ rules = <<>>
    /\ corrections = <<>>
    /\ fired = NoRule
    /\ cache = NewCommandCache
    /\ result = 0
    /\ fs_changes = 0

\* int d = levenshtein_distance(input, cmd);
CallLevenshtein ==
    /\ pc = "call"
    /\ result' = levenshtein_distance(ret[1], ret[2])
    /\ pc' = "done"
    /\ UNCHANGED <<recursive, stdlib, PATH, dirs_present, files, main_cmd, attempts,
                   rules, corrections, fired, cache, ret, fs_changes>>

NextLevenshtein == CallLevenshtein

SpecLevenshtein == InitLevenshtein /\ [][NextLevenshtein]_vars

\* C17: levenshtein_distance is symmetric, is zero on equal inputs, and is
\* the least number of single-character insertions, deletions and
\* substitutions that turn one input into the other, for all strings over
\* WordAlphabet of at most MaxWordLen characters.
C17_LevenshteinIsEditDistance ==
    pc = "done" =>
        /\ result = levenshtein_distance(ret[2], ret[1])
        /\ (ret[1] = ret[2]) => result = 0
        /\ result = MinEdits(ret[1], ret[2])

\* a pair that needs a substitution and an insertion together
C17_Witness ==
    /\ pc = "done"
    /\ ret = <<"gt", "ttg">>
    /\ result = 2

-----------------------------------------------------------------------------
(* The rules applied to npm, pip and docker commands with a mistyped       *)
(* subcommand                                                              *)

SubcommandInputs ==
    { <<"npm isntall express", "Unknown command: \"isntall\"">>,
      <<"npm isntall", "Unknown command: \"isntall\"">>,
      <<"npm urgrade -g npm", "Unknown command: \"urgrade\"">>,
      <<"npm run", "Unknown command: \"run\"">>,
      <<"pip instal requests", "ERROR: unknown command \"instal\"">>,
      <<"pip unisntall", "ERROR: unknown command \"unisntall\"">>,
      <<"docker tags", "docker: 'tags' is not a docker command.">>,
      <<"docker tag ls -a", "docker: 'tag' is not a docker command.">> }

InitSubcommand ==
    /\ pc = "call"
    /\ stdlib \in StdLibs
    /\ PATH \in RulePaths
    /\ dirs_present = Directories
    /\ files \in MainFiles
    /\ \E in \in SubcommandInputs : main_cmd = Command(in[1], in[2])
    /\ recursive = FALSE
    /\ attempts = 0
    /\ rules = <<>>
    /\ corrections = <<>>
    /\ fired = NoRule
    /\ cache = NewCommandCache
    /\ result = 0
    /\ ret = FALSE
    /\ fs_changes = 0

SpecSubcommand == InitSubcommand /\ [][NextRules]_vars

\* the typo map of a subcommand rule
SubcommandMap(rule) ==
    CASE rule = "NpmWrongCommandRule" -> NpmTypos
      [] rule = "PipUnknownCommandRule" -> PipTypos
      [] rule = "DockerNotCommandRule" -> DockerCommon

\* C18: when NpmWrongCommandRule, PipUnknownCommandRule or
\* DockerNotCommandRule matches and the second token is a key of the rule's
\* typo map, the candidate is the script with only the second token replaced
\* by the mapped value: the tool name and every later token are kept.
C18_OnlySubcommandReplaced ==
    ( /\ pc = "done"
      /\ ret
      /\ fired \in {"NpmWrongCommandRule", "PipUnknownCommandRule", "DockerNotCommandRule"}
      /\ Len(main_cmd.script_parts) > 1
      /\ main_cmd.script_parts[2] \in DOMAIN SubcommandMap(fired) )
    => corrections =
          <<append_parts(main_cmd.script_parts[1] \o " "
                           \o SubcommandMap(fired)[main_cmd.script_parts[2]],
                         main_cmd.script_parts, 3)>>

-----------------------------------------------------------------------------
(* The dispatcher, its registry in registration order, on Commands whose   *)
(* output says "command not found"                                          *)

NotFoundInputs ==
    { <<"gti status", "gti: command not found">>,
      <<"gti", "bash: gti: command not found">>,
      <<"sl", "bash: sl: command not found">>,
      <<"ligh", "ligh: command not found">>,
      <<"xyzzy -v", "bash: xyzzy: command not found">>,
      <<"apt-get x", "apt-get: command not found">>,
      <<"npm-install x", "npm-install: command not found">>,
      <<"gitcommit -m x", "gitcommit: command not found">>,
      <<"  ", "bash: : command not found">>,
      <<"./run.sh", "./run.sh: line 1: foo: command not found\n./run.sh: line 2: /etc/x: Permission denied">>,
      <<"git push", "fatal: The current branch main has no upstream branch.\nhook: command not found">>,
      <<"echo hi", "hi">> }

InitNotFound ==
    /\ pc = "loop"
    /\ recursive = FALSE
    /\ stdlib = "stable"
    /\ PATH \in DispatchPaths
    /\ dirs_present = Directories
    /\ files \in MainFiles
    /\ \E in \in NotFoundInputs : main_cmd = Command(in[1], in[2])
    /\ attempts = 0
    /\ rules = <<>>
    /\ corrections = <<>>
    /\ fired = NoRule
    /\ cache = NewCommandCache
    /\ result = 0
    /\ ret = <<>>
    /\ fs_changes = 0

SpecNotFound == InitNotFound /\ [][NextDispatch]_vars

\* the first token is no key of NoCommandRule's typo map and no name of the
\* index is within the distance FuzzyCommandRule::match asks for
NothingToSuggest ==
    \/ main_cmd.script_parts = <<>>
    \/ /\ main_cmd.script_parts[1] \notin DOMAIN NoCommandTypos
       /\ ~IndexHasWithin(main_cmd.script_parts[1], DefaultMaxDistance)

\* get_corrected_commands has returned, and rules is in registration order
EvaluatedInRegistrationOrder == Evaluated /\ rules = Registration

\* the list comes from one of the first four rules, and none of the three
\* later "command not found" rules produced it
FirstFourAnswer ==
    /\ fired \notin {"HasExistsScriptRule", "WrongHyphenBeforeSubcommandRule",
                     "MissingSpaceBeforeSubcommandRule"}
    /\ contains(main_cmd.output, "command not found") =>
          /\ corrections # <<>>
          /\ fired \in {"SudoRule", "FuzzyCommandRule", "GitPushRule", "NoCommandRule"}

\* C19 as stated: with the registry in registration order, a Command whose
\* output contains "command not found" gets a non-empty list from SudoRule,
\* FuzzyCommandRule, GitPushRule or NoCommandRule; HasExistsScriptRule,
\* WrongHyphenBeforeSubcommandRule and MissingSpaceBeforeSubcommandRule never
\* fire; and when the first token is not in the typo map and the index has
\* nothing within distance 2, the candidate is the script unchanged.
C19_NotFoundKeepsScript ==
    EvaluatedInRegistrationOrder =>
        /\ FirstFourAnswer
        /\ (contains(main_cmd.output, "command not found") /\ NothingToSuggest)
              => corrections = <<main_cmd.script>>

\* C19, amended: as above, but the candidate is the script unchanged only
\* when, besides, neither SudoRule nor GitPushRule matches the Command.
C19_NotFoundKeepsScriptUnlessEarlierRule ==
    EvaluatedInRegistrationOrder =>
        /\ FirstFourAnswer
        /\ ( /\ contains(main_cmd.output, "command not found")
             /\ NothingToSuggest
             /\ ~SudoRule_match(main_cmd)
             /\ ~GitPushRule_match(main_cmd) )
              => corrections = <<main_cmd.script>>

\* NoCommandRule answered a Command that WrongHyphenBeforeSubcommandRule
\* matches too, with the script unchanged
C19_Witness ==
    /\ EvaluatedInRegistrationOrder
    /\ fired = "NoCommandRule"
    /\ WrongHyphenBeforeSubcommandRule_match(main_cmd)
    /\ NothingToSuggest
    /\ corrections = <<main_cmd.script>>

=============================================================================
